---- MODULE Spec2Model ----
(***************************************************************************)
(* Model of src/game_analyzer.py: the acquisition pipeline get_game_data   *)
(* (store -> flat cache -> live crawl), the persistent store (sqlite       *)
(* table games), the flat-cache snapshot (wishlist_cache.csv) and the      *)
(* per-URL HTML cache.                                                     *)
(*                                                                         *)
(* The environment (network, file system, sqlite, the pages' contents) is  *)
(* a nondeterministic choice at every step that talks to it.  A listing    *)
(* page is drawn card by card while the loop walks it; a detail URL is     *)
(* identified with the card's title.                                       *)
(***************************************************************************)
EXTENDS Integers, Sequences, FiniteSets, TLC

\* ---- bounds of the model
MaxCalls == 2      \* calls of get_game_data in one behaviour
MaxPages == 2      \* listing pages one crawl may request
MaxCards == 2      \* listing cards met in one behaviour (all pages, all calls)
MaxPriceLen == 4   \* length of the raw price texts tried exhaustively
MaxRows == 3       \* rows of the price-history table below its header
MaxScoreLen == 2   \* length of the score texts tried
MaxUrlLen == 2     \* length of the URLs tried exhaustively
MaxPuts == 2       \* cache writes in one behaviour
MaxLookups == 2    \* cards whose requests are followed in one behaviour
MaxItems == 3      \* rows of the frames given to analyze_and_recommend
MaxRuns == 2       \* calls of analyze_and_recommend in one behaviour
MaxMainRuns == 3   \* runs of main() in one session

\* ---- values
NULL == -1                    \* Python None / NaN of an optional field
Titles == {"t1", "t2"}        \* titles the listing cards may carry
Prices == {10}                \* amounts the price parsing may produce
Scores == {80}                \* ratings the external-rating lookup may produce

\* an optional value of the parts looked at on their own, where any integer
\* may be a value: None, or Some(value)
None == <<>>
Some(x) == <<x>>

\* wishlist_cache.csv: absent, present but empty or unreadable, or a table
NoCsv == [state |-> "missing", rows |-> <<>>]
CorruptCsv == [state |-> "corrupt", rows |-> <<>>]
CsvOf(rows) == [state |-> "ok", rows |-> rows]

Range(s) == {s[i] : i \in 1..Len(s)}

VARIABLES
    pc,            \* position of the single thread in get_game_data
    calls,         \* number of calls of get_game_data made so far
    arg_force,     \* the argument force_refresh of the current call
    force_refresh, \* the local force_refresh (set at line 286)
    db,            \* table games: sequence of rows in rowid order
    csv,           \* wishlist_cache.csv: its state and the rows it holds
    htmlCache,     \* detail URLs with a non-empty body in html_cache/
    all_games,     \* the in-memory result list of the current call
    games_processed_count,
    page,          \* listing page number (0 before the crawl starts)
    cardsLeft,     \* cards of the current listing page not yet visited
    cardsMet,      \* listing cards met so far (bounds the model only)
    game,          \* the dict of the card being processed
    result,        \* the rows of the returned DataFrame
    tier1,         \* outcome of the Tier-1 load: none, hit, empty, error
    tier2,         \* outcome of the Tier-2 load: none, hit, missing, invalid
    brk,           \* why the loop ended: none, fetch_failed, no_cards, no_next
    io,            \* kinds of input/output the current call has performed
    lookups,       \* detail / rating lookups made for the current card
    requested,     \* listing pages requested by the current call, in order
    writes,        \* per title: successful store writes over all calls
    failedWrites,  \* indexes of all_games whose store write failed
    pagination,    \* what lines 472-483 found on the listing page last walked
    listing_urls,  \* the URLs of the listing requests of the current call
    slept          \* a time.sleep was made since the last detail request

\* the state of get_game_data and of the files it keeps
crawlVars ==
    <<pc, calls, arg_force, force_refresh, db, csv, htmlCache, all_games,
      games_processed_count, page, cardsLeft, cardsMet, game, result,
      tier1, tier2, brk, io, lookups, requested, writes, failedWrites,
      pagination, listing_urls, slept>>

\* ---- the steps of one card, each looked at on its own
\* the price step
VARIABLES
    price_pc,      \* position in the price step: idle, price, link, raised
    price_elem,    \* whether card.select_one('strong') found an element
    price_text,    \* price_elem.text.strip(), a sequence of characters
    current_price, \* game['current_price'] (NoAmount before the step)
    price_warning  \* the warning the step logged, "" if none

priceVars == <<price_pc, price_elem, price_text, current_price, price_warning>>

\* the price history
VARIABLES
    history_pc,    \* position: idle, table, rows, stats, done, excluded
    history_table, \* whether detail_soup has a '.price-history table'
    history_cells, \* rows[1:]: what the first cell of each row holds
    row_i,         \* index of the row the loop is at
    today,         \* the calendar date of datetime.now()
    dates,         \* the list dates: the parsed dates, as day numbers
    last_discount,                \* game['last_discount']
    days_since_last_discount,     \* game['days_since_last_discount']
    avg_days_between_discounts    \* game['avg_days_between_discounts']

historyVars ==
    <<history_pc, history_table, history_cells, row_i, today, dates,
      last_discount, days_since_last_discount, avg_days_between_discounts>>

\* the quality scores
VARIABLES
    score_pc,        \* idle, meta, open, save, average, done, excluded
    metacritic_elem, \* the Metacritic entry: whether found, and its text
    opencritic_elem, \* the OpenCritic entry: whether found, and its text
    metascore,       \* game['metascore']
    openscore,       \* game['openscore']
    steam_score,     \* game['steam_score']
    score_rows,      \* the score columns of the rows of table games
    avg_score        \* df['avg_score'] of the row read back

scoreVars == <<score_pc, metacritic_elem, opencritic_elem, metascore,
               openscore, steam_score, score_rows, avg_score>>

\* the HTML cache
VARIABLES
    files,         \* html_cache/: the files written, with their contents
    put_log,       \* the keys saved so far, each with the text last saved
    puts,          \* number of cache writes made so far
    got            \* what the last cache read was asked and what it returned

cacheVars == <<files, put_log, puts, got>>

\* the HTTP requests of a card
VARIABLES
    rating_pc,       \* position: idle, listing, detail, search, rating,
                     \* score, done, added, excluded
    card_title,      \* game['title'] of the card
    sdb_cache,       \* per SteamDB URL: the cached page (None if no file)
    app_id,          \* what search_steamdb returned
    steam_score_str, \* what get_steam_rating returned
    rating_score,    \* game['steam_score'] as line 418 sets it
    card_io,         \* cache reads and requests made for the card
    sent,            \* every HTTP GET issued, with its arguments
    looked_up        \* number of cards started

resolverVars == <<rating_pc, card_title, sdb_cache, app_id, steam_score_str,
                  rating_score, card_io, sent, looked_up>>

\* the recommendation engine
VARIABLES
    rec_pc,          \* idle, frame (a frame is at hand), ranked
    df,              \* the frame the last call was given a copy of
    recommendations, \* the frame the last call returned
    previous,        \* the frame the call before the last returned
    fed,             \* what the last call was given: frame, same, output
    sort_ties,       \* what the build's sort does to rows of equal score
    runs             \* number of calls made so far

recommendVars == <<rec_pc, df, recommendations, previous, fed, sort_ties, runs>>

\* main(), one run after the other in one session
VARIABLES
    main_pc,                 \* position in main(): idle, start, count,
                             \* initial, initial_df, session, button,
                             \* options, processing, analyze, display, end,
                             \* raised
    raw_data,                \* st.session_state.raw_data: absent (no such
                             \* key), None or set
    processed_data,          \* st.session_state.processed_data, likewise
    show_processing_options, \* the session field, None if there is no key
    initial_data_loaded,     \* the local of main
    pressed,                 \* the button whose click started this run
    options_shown,           \* the two processing buttons were drawn in the
                             \* last run that reached line 802
    displayed,               \* display_results was called in this run
    main_runs                \* number of runs started

mainVars == <<main_pc, raw_data, processed_data, show_processing_options,
              initial_data_loaded, pressed, options_shown, displayed,
              main_runs>>

\* the variables the crawl does not touch
unitVars == <<priceVars, historyVars, scoreVars, cacheVars, resolverVars,
              recommendVars, mainVars>>

\* the variables each of these parts does not touch
priceRest == <<crawlVars, historyVars, scoreVars, cacheVars, resolverVars,
               recommendVars, mainVars>>
historyRest == <<crawlVars, priceVars, scoreVars, cacheVars, resolverVars,
                 recommendVars, mainVars>>
scoreRest == <<crawlVars, priceVars, historyVars, cacheVars, resolverVars,
               recommendVars, mainVars>>
cacheRest == <<crawlVars, priceVars, historyVars, scoreVars, resolverVars,
               recommendVars, mainVars>>
resolverRest == <<crawlVars, priceVars, historyVars, scoreVars, cacheVars,
                  recommendVars, mainVars>>
recommendRest == <<crawlVars, priceVars, historyVars, scoreVars, cacheVars,
                   resolverVars, mainVars>>
mainRest == <<crawlVars, priceVars, historyVars, scoreVars, cacheVars,
              resolverVars, recommendVars>>

vars == <<crawlVars, unitVars>>

\* ---- records
NoGame == [title |-> "", current_price |-> NULL, detail_url |-> "",
           steam_score |-> NULL]

\* the columns save_game_to_db writes (detail_url is not a column of games)
StoreRow(g) == [title |-> g.title, current_price |-> g.current_price,
                steam_score |-> g.steam_score]

\* pd.to_numeric(...).fillna(0) on current_price, pd.to_numeric on the scores
CoerceRow(r) == [r EXCEPT !.current_price = IF @ = NULL THEN 0 ELSE @]

CoerceTypes(rows) == [i \in 1..Len(rows) |-> CoerceRow(rows[i])]

\* ---- persistent store
StoreTitles == {db[i].title : i \in 1..Len(db)}

\* mutants of game_exists_in_db: the check looks at the in-memory list only;
\* the check is missing
ExistsInMemoryOnly(title) ==
    \E i \in 1..Len(all_games) : all_games[i].title = title

ExistsNever(title) == FALSE

game_exists_in_db(title) == \E i \in 1..Len(db) : db[i].title = title

RECURSIVE DeleteTitle(_, _)
DeleteTitle(rows, title) ==
    IF rows = <<>> THEN <<>>
    ELSE IF Head(rows).title = title THEN DeleteTitle(Tail(rows), title)
    ELSE <<Head(rows)>> \o DeleteTitle(Tail(rows), title)

\* mutant of save_game_to_db: the row is not written (kept for a later batch)
SaveDeferred(rows, g) == rows

\* INSERT OR REPLACE: the row of the same title is deleted, the new row is
\* inserted with a fresh rowid
save_game_to_db(rows, g) == Append(DeleteTitle(rows, g.title), StoreRow(g))

\* the pagination block of a listing page, as lines 472-483 look at it: the
\* active item is looked for only without a rel="next" link, the li after it
\* only if there is an active item
NoPagination ==
    [rel_next |-> FALSE, current_active |-> FALSE, next_li |-> FALSE]

Paginations ==
    {NoPagination,
     [rel_next |-> TRUE, current_active |-> FALSE, next_li |-> FALSE],
     [rel_next |-> FALSE, current_active |-> TRUE, next_li |-> FALSE],
     [rel_next |-> FALSE, current_active |-> TRUE, next_li |-> TRUE]}

\* the state before the first call of get_game_data
CrawlInit ==
    /\ pc = "idle"
    /\ calls = 0
    /\ arg_force = FALSE
    /\ force_refresh = FALSE
    /\ db = <<>>
    /\ csv = NoCsv
    /\ htmlCache = {}
    /\ all_games = <<>>
    /\ games_processed_count = 0
    /\ page = 0
    /\ cardsLeft = 0
    /\ cardsMet = 0
    /\ game = NoGame
    /\ result = <<>>
    /\ tier1 = "none"
    /\ tier2 = "none"
    /\ brk = "none"
    /\ io = {}
    /\ lookups = {}
    /\ requested = <<>>
    /\ writes = [t \in Titles |-> 0]
    /\ failedWrites = {}
    /\ pagination = NoPagination
    /\ listing_urls = <<>>
    /\ slept = FALSE

\* ---- get_game_data(base_url, force_refresh): entry, lines 209-218
Call(f) ==
    /\ pc \in {"idle", "returned", "raised"}
    /\ calls < MaxCalls
    /\ calls' = calls + 1
    /\ arg_force' = f
    /\ force_refresh' = f
    /\ all_games' = <<>>
    /\ games_processed_count' = 0
    /\ page' = 0
    /\ cardsLeft' = 0
    /\ game' = NoGame
    /\ result' = <<>>
    /\ tier1' = "none"
    /\ tier2' = "none"
    /\ brk' = "none"
    /\ io' = {}
    /\ lookups' = {}
    /\ requested' = <<>>
    /\ failedWrites' = {}
    /\ pc' = "create"
    /\ UNCHANGED <<db, csv, htmlCache, cardsMet, writes>>
    /\ pagination' = NoPagination
    /\ listing_urls' = <<>>
    /\ slept' = FALSE
    /\ UNCHANGED unitVars

\* ---- create_database(), line 221 (not inside any try)
\* mutant of AfterCreate: the loading logic runs whatever force_refresh is
AfterCreateAlwaysLoad(force) == "load"

\* line 224: the loading logic runs only if not force_refresh
AfterCreate(force) == IF force THEN "scrape" ELSE "load"

CreateDatabaseOk ==
    /\ pc = "create"
    /\ pc' = AfterCreate(force_refresh)
    /\ UNCHANGED <<calls, arg_force, force_refresh, db, csv, htmlCache,
                   all_games, games_processed_count, page, cardsLeft, cardsMet,
                   game, result, tier1, tier2, brk, io, lookups, requested,
                   writes, failedWrites>>
    /\ UNCHANGED <<pagination, listing_urls, slept>>
    /\ UNCHANGED unitVars

\* sqlite3.connect / CREATE TABLE raises: the exception leaves get_game_data
CreateDatabaseRaise ==
    /\ pc = "create"
    /\ pc' = "raised"
    /\ UNCHANGED <<calls, arg_force, force_refresh, db, csv, htmlCache,
                   all_games, games_processed_count, page, cardsLeft, cardsMet,
                   game, result, tier1, tier2, brk, io, lookups, requested,
                   writes, failedWrites>>
    /\ UNCHANGED <<pagination, listing_urls, slept>>
    /\ UNCHANGED unitVars

\* mutant of Tier1HasRows: count > 1
Tier1MoreThanOneRow == Len(db) > 1

\* ---- Tier 1, lines 224-255
\* SELECT COUNT(*) FROM games; count > 0
Tier1HasRows == Len(db) > 0

Tier1Hit ==
    /\ pc = "load"
    /\ Tier1HasRows
    /\ tier1' = "hit"
    /\ result' = CoerceTypes(db)
    /\ pc' = "returned"
    /\ UNCHANGED <<calls, arg_force, force_refresh, db, csv, htmlCache,
                   all_games, games_processed_count, page, cardsLeft, cardsMet,
                   game, tier2, brk, io, lookups, requested, writes,
                   failedWrites>>
    /\ UNCHANGED <<pagination, listing_urls, slept>>
    /\ UNCHANGED unitVars

Tier1Empty ==
    /\ pc = "load"
    /\ ~Tier1HasRows
    /\ tier1' = "empty"
    /\ pc' = "csv"
    /\ UNCHANGED <<calls, arg_force, force_refresh, db, csv, htmlCache,
                   all_games, games_processed_count, page, cardsLeft, cardsMet,
                   game, result, tier2, brk, io, lookups, requested, writes,
                   failedWrites>>
    /\ UNCHANGED <<pagination, listing_urls, slept>>
    /\ UNCHANGED unitVars

\* the connect, the count or the read raises; caught at line 253
Tier1Error ==
    /\ pc = "load"
    /\ tier1' = "error"
    /\ pc' = "csv"
    /\ UNCHANGED <<calls, arg_force, force_refresh, db, csv, htmlCache,
                   all_games, games_processed_count, page, cardsLeft, cardsMet,
                   game, result, tier2, brk, io, lookups, requested, writes,
                   failedWrites>>
    /\ UNCHANGED <<pagination, listing_urls, slept>>
    /\ UNCHANGED unitVars

\* ---- Tier 2, lines 257-286
\* os.path.exists(CACHE_FILE)
CsvExists(c) == c.state # "missing"

\* mutant of CsvUsable: a snapshot of one row is taken for an empty one
CsvMoreThanOneRow(c) == c.state = "ok" /\ Len(c.rows) > 1

\* read_csv succeeds, not df.empty and 'title' in df.columns
CsvUsable(c) == c.state = "ok" /\ c.rows # <<>>

Tier2Hit ==
    /\ pc = "csv"
    /\ CsvExists(csv) /\ CsvUsable(csv)
    /\ tier2' = "hit"
    /\ io' = io \cup {"csv_read"}
    /\ result' = CoerceTypes(csv.rows)
    /\ pc' = "returned"
    /\ UNCHANGED <<calls, arg_force, force_refresh, db, csv, htmlCache,
                   all_games, games_processed_count, page, cardsLeft, cardsMet,
                   game, tier1, brk, lookups, requested, writes, failedWrites>>
    /\ UNCHANGED <<pagination, listing_urls, slept>>
    /\ UNCHANGED unitVars

\* the file exists but read_csv raises, or the frame is empty (lines 273-278)
Tier2Invalid ==
    /\ pc = "csv"
    /\ CsvExists(csv) /\ ~CsvUsable(csv)
    /\ tier2' = "invalid"
    /\ io' = io \cup {"csv_read"}
    /\ force_refresh' = TRUE
    /\ pc' = "scrape"
    /\ UNCHANGED <<calls, arg_force, db, csv, htmlCache, all_games,
                   games_processed_count, page, cardsLeft, cardsMet, game,
                   result, tier1, brk, lookups, requested, writes,
                   failedWrites>>
    /\ UNCHANGED <<pagination, listing_urls, slept>>
    /\ UNCHANGED unitVars

Tier2Missing ==
    /\ pc = "csv"
    /\ ~CsvExists(csv)
    /\ tier2' = "missing"
    /\ force_refresh' = TRUE
    /\ pc' = "scrape"
    /\ UNCHANGED <<calls, arg_force, db, csv, htmlCache, all_games,
                   games_processed_count, page, cardsLeft, cardsMet, game,
                   result, tier1, brk, io, lookups, requested, writes,
                   failedWrites>>
    /\ UNCHANGED <<pagination, listing_urls, slept>>
    /\ UNCHANGED unitVars

\* ---- Tier 3, lines 289-293: the crawl starts
StartCrawl ==
    /\ pc = "scrape"
    /\ force_refresh
    /\ page' = 1
    /\ games_processed_count' = 0
    /\ pc' = "fetch"
    /\ UNCHANGED <<calls, arg_force, force_refresh, db, csv, htmlCache,
                   all_games, cardsLeft, cardsMet, game, result, tier1, tier2,
                   brk, io, lookups, requested, writes, failedWrites>>
    /\ UNCHANGED <<pagination, listing_urls, slept>>
    /\ UNCHANGED unitVars

\* ---- the crawl loop, lines 294-321: one listing page
\* line 296: f"{base_url}?page={page}" if page > 1 else base_url
ListingUrl(n) == IF n > 1 THEN <<"base_url", "?page=", n>> ELSE <<"base_url">>

\* mutant of FetchPageError: the exception of the listing fetch is not caught
FetchPageErrorRaises ==
    /\ pc = "fetch"
    /\ requested' = Append(requested, page)
    /\ io' = io \cup {"http"}
    /\ brk' = "fetch_failed"
    /\ pc' = "raised"
    /\ UNCHANGED <<calls, arg_force, force_refresh, db, csv, htmlCache,
                   all_games, games_processed_count, page, cardsLeft, cardsMet,
                   game, result, tier1, tier2, lookups, writes, failedWrites>>
    /\ listing_urls' = Append(listing_urls, ListingUrl(page))
    /\ UNCHANGED <<pagination, slept>>
    /\ UNCHANGED unitVars

\* session.get(url) raises RequestException: break (line 312)
FetchPageError ==
    /\ pc = "fetch"
    /\ requested' = Append(requested, page)
    /\ io' = io \cup {"http"}
    /\ brk' = "fetch_failed"
    /\ pc' = "post"
    /\ UNCHANGED <<calls, arg_force, force_refresh, db, csv, htmlCache,
                   all_games, games_processed_count, page, cardsLeft, cardsMet,
                   game, result, tier1, tier2, lookups, writes, failedWrites>>
    /\ listing_urls' = Append(listing_urls, ListingUrl(page))
    /\ UNCHANGED <<pagination, slept>>
    /\ UNCHANGED unitVars

\* the page is fetched and holds no .list-view card: break (line 321)
FetchPageNoCards ==
    /\ pc = "fetch"
    /\ requested' = Append(requested, page)
    /\ io' = io \cup {"http"}
    /\ brk' = "no_cards"
    /\ pc' = "post"
    /\ UNCHANGED <<calls, arg_force, force_refresh, db, csv, htmlCache,
                   all_games, games_processed_count, page, cardsLeft, cardsMet,
                   game, result, tier1, tier2, lookups, writes, failedWrites>>
    /\ listing_urls' = Append(listing_urls, ListingUrl(page))
    /\ UNCHANGED <<pagination, slept>>
    /\ UNCHANGED unitVars

FetchPageCards(n) ==
    /\ pc = "fetch"
    /\ requested' = Append(requested, page)
    /\ io' = io \cup {"http"}
    /\ cardsLeft' = n
    /\ cardsMet' = cardsMet + n
    /\ pc' = "card"
    /\ UNCHANGED <<calls, arg_force, force_refresh, db, csv, htmlCache,
                   all_games, games_processed_count, page, game, result, tier1,
                   tier2, brk, lookups, writes, failedWrites>>
    /\ listing_urls' = Append(listing_urls, ListingUrl(page))
    /\ UNCHANGED <<pagination, slept>>
    /\ UNCHANGED unitVars

\* ---- one card, lines 323-330
\* no title element: continue (line 329)
CardNoTitle ==
    /\ pc = "card"
    /\ cardsLeft > 0
    /\ cardsLeft' = cardsLeft - 1
    /\ lookups' = {}
    /\ game' = NoGame
    /\ UNCHANGED <<pc, calls, arg_force, force_refresh, db, csv, htmlCache,
                   all_games, games_processed_count, page, cardsMet, result,
                   tier1, tier2, brk, io, requested, writes, failedWrites>>
    /\ UNCHANGED <<pagination, listing_urls, slept>>
    /\ UNCHANGED unitVars

CardTitle(t) ==
    /\ pc = "card"
    /\ cardsLeft > 0
    /\ cardsLeft' = cardsLeft - 1
    /\ lookups' = {}
    /\ game' = [NoGame EXCEPT !.title = t]
    /\ pc' = "exists"
    /\ UNCHANGED <<calls, arg_force, force_refresh, db, csv, htmlCache,
                   all_games, games_processed_count, page, cardsMet, result,
                   tier1, tier2, brk, io, requested, writes, failedWrites>>
    /\ UNCHANGED <<pagination, listing_urls, slept>>
    /\ UNCHANGED unitVars

\* ---- the dedup check, lines 332-341
\* game_exists_in_db raises (it is not inside any try)
ExistsRaise ==
    /\ pc = "exists"
    /\ pc' = "raised"
    /\ UNCHANGED <<calls, arg_force, force_refresh, db, csv, htmlCache,
                   all_games, games_processed_count, page, cardsLeft, cardsMet,
                   game, result, tier1, tier2, brk, io, lookups, requested,
                   writes, failedWrites>>
    /\ UNCHANGED <<pagination, listing_urls, slept>>
    /\ UNCHANGED unitVars

\* already in the database: continue (line 337)
ExistsSkip ==
    /\ pc = "exists"
    /\ game_exists_in_db(game.title)
    /\ pc' = "card"
    /\ UNCHANGED <<calls, arg_force, force_refresh, db, csv, htmlCache,
                   all_games, games_processed_count, page, cardsLeft, cardsMet,
                   game, result, tier1, tier2, brk, io, lookups, requested,
                   writes, failedWrites>>
    /\ UNCHANGED <<pagination, listing_urls, slept>>
    /\ UNCHANGED unitVars

ExistsNew ==
    /\ pc = "exists"
    /\ ~game_exists_in_db(game.title)
    /\ games_processed_count' = games_processed_count + 1
    /\ pc' = "price"
    /\ UNCHANGED <<calls, arg_force, force_refresh, db, csv, htmlCache,
                   all_games, page, cardsLeft, cardsMet, game, result, tier1,
                   tier2, brk, io, lookups, requested, writes, failedWrites>>
    /\ UNCHANGED <<pagination, listing_urls, slept>>
    /\ UNCHANGED unitVars

\* ---- the price of the card, lines 343-385: always sets current_price
ParsePrice(p) ==
    /\ pc = "price"
    /\ game' = [game EXCEPT !.current_price = p]
    /\ pc' = "link"
    /\ UNCHANGED <<calls, arg_force, force_refresh, db, csv, htmlCache,
                   all_games, games_processed_count, page, cardsLeft, cardsMet,
                   result, tier1, tier2, brk, io, lookups, requested, writes,
                   failedWrites>>
    /\ UNCHANGED <<pagination, listing_urls, slept>>
    /\ UNCHANGED unitVars

\* ---- the detail link, lines 387-392 and 460-465
\* mutant of NoDetailLink: the card without a link is added with its details
\* left empty
NoDetailLinkAdded ==
    /\ pc = "link"
    /\ pc' = "append"
    /\ UNCHANGED <<calls, arg_force, force_refresh, db, csv, htmlCache,
                   all_games, games_processed_count, page, cardsLeft, cardsMet,
                   game, result, tier1, tier2, brk, io, lookups, requested,
                   writes, failedWrites>>
    /\ UNCHANGED <<pagination, listing_urls, slept>>
    /\ UNCHANGED unitVars

NoDetailLink ==
    /\ pc = "link"
    /\ pc' = "card"
    /\ UNCHANGED <<calls, arg_force, force_refresh, db, csv, htmlCache,
                   all_games, games_processed_count, page, cardsLeft, cardsMet,
                   game, result, tier1, tier2, brk, io, lookups, requested,
                   writes, failedWrites>>
    /\ UNCHANGED <<pagination, listing_urls, slept>>
    /\ UNCHANGED unitVars

\* mutant of time_sleep: the pause is left out
NoSleep(s) == s

\* line 392, time.sleep(0.5): a pause has been made since the last
\* detail-page request
time_sleep(s) == TRUE

HasDetailLink ==
    /\ pc = "link"
    /\ game' = [game EXCEPT !.detail_url = game.title]
    /\ pc' = "detail"
    /\ UNCHANGED <<calls, arg_force, force_refresh, db, csv, htmlCache,
                   all_games, games_processed_count, page, cardsLeft, cardsMet,
                   result, tier1, tier2, brk, io, lookups, requested, writes,
                   failedWrites>>
    /\ slept' = time_sleep(slept)
    /\ UNCHANGED <<pagination, listing_urls>>
    /\ UNCHANGED unitVars

\* ---- the detail page, lines 394-406
\* one entry of the lookup log: what was looked up, how it ended, and whether
\* the card's title had a row in the store when the lookup was made
Lookup(kind, outcome) == [kind |-> kind, outcome |-> outcome,
                          stored |-> game.title \in StoreTitles]

\* get_html_from_cache(detail_url) returns a non-empty body
DetailCached ==
    /\ pc = "detail"
    /\ game.detail_url \in htmlCache
    /\ lookups' = lookups \cup {Lookup("detail", "cached")}
    /\ pc' = "rating"
    /\ UNCHANGED <<calls, arg_force, force_refresh, db, csv, htmlCache,
                   all_games, games_processed_count, page, cardsLeft, cardsMet,
                   game, result, tier1, tier2, brk, io, requested, writes,
                   failedWrites>>
    /\ UNCHANGED <<pagination, listing_urls, slept>>
    /\ UNCHANGED unitVars

\* cache miss, session.get succeeds; save_html_to_cache may fail silently or
\* store an empty body, which a later lookup treats as a miss
DetailFetched(cached) ==
    /\ pc = "detail"
    /\ game.detail_url \notin htmlCache
    /\ lookups' = lookups \cup {Lookup("detail", "fetched")}
    /\ io' = io \cup {"http"}
    /\ htmlCache' = IF cached THEN htmlCache \cup {game.detail_url}
                    ELSE htmlCache
    /\ pc' = "rating"
    /\ UNCHANGED <<calls, arg_force, force_refresh, db, csv, all_games,
                   games_processed_count, page, cardsLeft, cardsMet, game,
                   result, tier1, tier2, brk, requested, writes, failedWrites>>
    /\ slept' = FALSE
    /\ UNCHANGED <<pagination, listing_urls>>
    /\ UNCHANGED unitVars

\* cache miss, session.get raises RequestException: continue (line 455)
DetailFetchError ==
    /\ pc = "detail"
    /\ game.detail_url \notin htmlCache
    /\ io' = io \cup {"http"}
    /\ pc' = "card"
    /\ lookups' = lookups \cup {Lookup("detail", "network_error")}
    /\ UNCHANGED <<calls, arg_force, force_refresh, db, csv, htmlCache,
                   all_games, games_processed_count, page, cardsLeft, cardsMet,
                   game, result, tier1, tier2, brk, requested, writes,
                   failedWrites>>
    /\ slept' = FALSE
    /\ UNCHANGED <<pagination, listing_urls>>
    /\ UNCHANGED unitVars

\* ---- scores, external rating and price history, lines 408-449
\* search_steamdb / get_steam_rating give a rating or None
RatingResolved(score) ==
    /\ pc = "rating"
    /\ lookups' = lookups \cup {Lookup("rating", "resolved")}
    /\ game' = [game EXCEPT !.steam_score = score]
    /\ pc' = "append"
    /\ UNCHANGED <<calls, arg_force, force_refresh, db, csv, htmlCache,
                   all_games, games_processed_count, page, cardsLeft, cardsMet,
                   result, tier1, tier2, brk, io, requested, writes,
                   failedWrites>>
    /\ UNCHANGED <<pagination, listing_urls, slept>>
    /\ UNCHANGED unitVars

\* any other exception while the details are processed: continue (line 459)
DetailProcessingError ==
    /\ pc = "rating"
    /\ pc' = "card"
    /\ lookups' = lookups \cup {Lookup("rating", "exception")}
    /\ UNCHANGED <<calls, arg_force, force_refresh, db, csv, htmlCache,
                   all_games, games_processed_count, page, cardsLeft, cardsMet,
                   game, result, tier1, tier2, brk, io, requested, writes,
                   failedWrites>>
    /\ UNCHANGED <<pagination, listing_urls, slept>>
    /\ UNCHANGED unitVars

\* ---- lines 467-469: all_games.append(game), then save_game_to_db(game)
AppendGame ==
    /\ pc = "append"
    /\ all_games' = Append(all_games, game)
    /\ pc' = "save"
    /\ UNCHANGED <<calls, arg_force, force_refresh, db, csv, htmlCache,
                   games_processed_count, page, cardsLeft, cardsMet, game,
                   result, tier1, tier2, brk, io, lookups, requested, writes,
                   failedWrites>>
    /\ UNCHANGED <<pagination, listing_urls, slept>>
    /\ UNCHANGED unitVars

SaveGameOk ==
    /\ pc = "save"
    /\ db' = save_game_to_db(db, game)
    /\ writes' = [writes EXCEPT ![game.title] = @ + 1]
    /\ io' = io \cup {"db_write"}
    /\ pc' = "card"
    /\ UNCHANGED <<calls, arg_force, force_refresh, csv, htmlCache, all_games,
                   games_processed_count, page, cardsLeft, cardsMet, game,
                   result, tier1, tier2, brk, lookups, requested, failedWrites>>
    /\ UNCHANGED <<pagination, listing_urls, slept>>
    /\ UNCHANGED unitVars

\* the INSERT raises; caught and logged at line 73
SaveGameError ==
    /\ pc = "save"
    /\ failedWrites' = failedWrites \cup {Len(all_games)}
    /\ io' = io \cup {"db_write"}
    /\ pc' = "card"
    /\ UNCHANGED <<calls, arg_force, force_refresh, db, csv, htmlCache,
                   all_games, games_processed_count, page, cardsLeft, cardsMet,
                   game, result, tier1, tier2, brk, lookups, requested, writes>>
    /\ UNCHANGED <<pagination, listing_urls, slept>>
    /\ UNCHANGED unitVars

\* sqlite3.connect raises at line 55, before the try
SaveGameRaise ==
    /\ pc = "save"
    /\ failedWrites' = failedWrites \cup {Len(all_games)}
    /\ io' = io \cup {"db_write"}
    /\ pc' = "raised"
    /\ UNCHANGED <<calls, arg_force, force_refresh, db, csv, htmlCache,
                   all_games, games_processed_count, page, cardsLeft, cardsMet,
                   game, result, tier1, tier2, brk, lookups, requested, writes>>
    /\ UNCHANGED <<pagination, listing_urls, slept>>
    /\ UNCHANGED unitVars

\* ---- pagination, lines 471-490
\* mutant of FindNextPageLink: an active page item counts as a link
ActiveIsLink(nav) ==
    IF nav.rel_next THEN "rel_next"
    ELSE IF nav.current_active THEN "page_item"
    ELSE "none"

\* lines 472-483: the a.page-link[rel="next"] element; without it, the
\* a.page-link of the li that follows the li of the active page item
FindNextPageLink(nav) ==
    IF nav.rel_next THEN "rel_next"
    ELSE IF nav.current_active /\ nav.next_li THEN "page_item"
    ELSE "none"

NoNextPage(nav) ==
    /\ pc = "card"
    /\ cardsLeft = 0
    /\ FindNextPageLink(nav) = "none"
    /\ brk' = "no_next"
    /\ pc' = "post"
    /\ UNCHANGED <<calls, arg_force, force_refresh, db, csv, htmlCache,
                   all_games, games_processed_count, page, cardsLeft, cardsMet,
                   game, result, tier1, tier2, io, lookups, requested, writes,
                   failedWrites>>
    /\ pagination' = nav
    /\ UNCHANGED <<listing_urls, slept>>
    /\ UNCHANGED unitVars

NextPage(nav) ==
    /\ pc = "card"
    /\ cardsLeft = 0
    /\ FindNextPageLink(nav) # "none"
    /\ page < MaxPages
    /\ page' = page + 1
    /\ pc' = "fetch"
    /\ UNCHANGED <<calls, arg_force, force_refresh, db, csv, htmlCache,
                   all_games, games_processed_count, cardsLeft, cardsMet, game,
                   result, tier1, tier2, brk, io, lookups, requested, writes,
                   failedWrites>>
    /\ pagination' = nav
    /\ UNCHANGED <<listing_urls, slept>>
    /\ UNCHANGED unitVars

\* ---- post-scraping, lines 496-549
\* mutant of PostReload: the empty list is returned, the store is not read
PostReloadSkipped ==
    /\ pc = "post"
    /\ all_games = <<>> /\ games_processed_count = 0
    /\ result' = CoerceTypes(all_games)
    /\ pc' = "returned"
    /\ UNCHANGED <<calls, arg_force, force_refresh, db, csv, htmlCache,
                   all_games, games_processed_count, page, cardsLeft, cardsMet,
                   game, tier1, tier2, brk, io, lookups, requested, writes,
                   failedWrites>>
    /\ UNCHANGED <<pagination, listing_urls, slept>>
    /\ UNCHANGED unitVars

\* mutant of PostNothing: the store is read again, as when nothing was tried
PostNothingReloads ==
    /\ pc = "post"
    /\ all_games = <<>> /\ games_processed_count > 0
    /\ result' = CoerceTypes(db)
    /\ pc' = "returned"
    /\ UNCHANGED <<calls, arg_force, force_refresh, db, csv, htmlCache,
                   all_games, games_processed_count, page, cardsLeft, cardsMet,
                   game, tier1, tier2, brk, io, lookups, requested, writes,
                   failedWrites>>
    /\ UNCHANGED <<pagination, listing_urls, slept>>
    /\ UNCHANGED unitVars

\* nothing new was met: the store is read again (lines 497-519)
PostReload ==
    /\ pc = "post"
    /\ all_games = <<>> /\ games_processed_count = 0
    /\ result' = CoerceTypes(db)
    /\ pc' = "returned"
    /\ UNCHANGED <<calls, arg_force, force_refresh, db, csv, htmlCache,
                   all_games, games_processed_count, page, cardsLeft, cardsMet,
                   game, tier1, tier2, brk, io, lookups, requested, writes,
                   failedWrites>>
    /\ UNCHANGED <<pagination, listing_urls, slept>>
    /\ UNCHANGED unitVars

\* the read raises; caught at line 516
PostReloadError ==
    /\ pc = "post"
    /\ all_games = <<>> /\ games_processed_count = 0
    /\ io' = io \cup {"db_read_failed"}
    /\ result' = <<>>
    /\ pc' = "returned"
    /\ UNCHANGED <<calls, arg_force, force_refresh, db, csv, htmlCache,
                   all_games, games_processed_count, page, cardsLeft, cardsMet,
                   game, tier1, tier2, brk, lookups, requested, writes,
                   failedWrites>>
    /\ UNCHANGED <<pagination, listing_urls, slept>>
    /\ UNCHANGED unitVars

\* new titles were tried and none succeeded (lines 521-524)
PostNothing ==
    /\ pc = "post"
    /\ all_games = <<>> /\ games_processed_count > 0
    /\ result' = <<>>
    /\ pc' = "returned"
    /\ UNCHANGED <<calls, arg_force, force_refresh, db, csv, htmlCache,
                   all_games, games_processed_count, page, cardsLeft, cardsMet,
                   game, tier1, tier2, brk, io, lookups, requested, writes,
                   failedWrites>>
    /\ UNCHANGED <<pagination, listing_urls, slept>>
    /\ UNCHANGED unitVars

\* mutant of PostExport: the full store is exported instead of the list
PostExportStore ==
    /\ pc = "post"
    /\ all_games # <<>>
    /\ csv' = CsvOf(db)
    /\ io' = io \cup {"csv_write"}
    /\ result' = CoerceTypes(all_games)
    /\ pc' = "returned"
    /\ UNCHANGED <<calls, arg_force, force_refresh, db, htmlCache, all_games,
                   games_processed_count, page, cardsLeft, cardsMet, game,
                   tier1, tier2, brk, lookups, requested, writes, failedWrites>>
    /\ UNCHANGED <<pagination, listing_urls, slept>>
    /\ UNCHANGED unitVars

\* lines 526-549: the list is exported to the CSV cache and returned
PostExport ==
    /\ pc = "post"
    /\ all_games # <<>>
    /\ csv' = CsvOf(all_games)
    /\ io' = io \cup {"csv_write"}
    /\ result' = CoerceTypes(all_games)
    /\ pc' = "returned"
    /\ UNCHANGED <<calls, arg_force, force_refresh, db, htmlCache, all_games,
                   games_processed_count, page, cardsLeft, cardsMet, game,
                   tier1, tier2, brk, lookups, requested, writes, failedWrites>>
    /\ UNCHANGED <<pagination, listing_urls, slept>>
    /\ UNCHANGED unitVars

\* df.to_csv raises (caught at line 540): the old file stays, or a truncated
\* one is left behind
PostExportError(truncated) ==
    /\ pc = "post"
    /\ all_games # <<>>
    /\ csv' = IF truncated THEN CorruptCsv ELSE csv
    /\ io' = io \cup {"csv_write", "csv_write_failed"}
    /\ result' = CoerceTypes(all_games)
    /\ pc' = "returned"
    /\ UNCHANGED <<calls, arg_force, force_refresh, db, htmlCache, all_games,
                   games_processed_count, page, cardsLeft, cardsMet, game,
                   tier1, tier2, brk, lookups, requested, writes, failedWrites>>
    /\ UNCHANGED <<pagination, listing_urls, slept>>
    /\ UNCHANGED unitVars

\* ---- the price of a card, lines 343-385, on raw price texts

\* the raw price texts: some longer ones, and every text of at most
\* MaxPriceLen characters over two digits, the separators and a symbol
PriceTexts ==
    { <<"1", ".", "2", "3", "4", ",", "5", "6">>,
      <<"1", ",", "2", "3", "4", ".", "5", "6">>,
      <<"$", "1", "9", ".", "9", "9">>,
      <<"1", "1", "3", "5", "0", "0", "0">>,
      <<"5">>,
      <<"A", "R", "S", "$", " ", "1", ".", "1", "3", "5", ",", "0", "0">> }
    \cup UNION {[1..n -> {"0", "1", ",", ".", "$"}] : n \in 0..MaxPriceLen}

DigitChars == <<"0", "1", "2", "3", "4", "5", "6", "7", "8", "9">>

\* the class \d of the regular expression, one character
IsDigit(c) == \E i \in 1..Len(DigitChars) : DigitChars[i] = c

\* re.sub(r'[^\d,.]', '', price_text), line 349
cleaned_price_str(text) ==
    SelectSeq(text, LAMBDA c : IsDigit(c) \/ c = "," \/ c = ".")

\* str.replace(old, new) for a single character old and a string new that
\* is empty or a single character
replace(s, old, new) ==
    IF new = <<>> THEN SelectSeq(s, LAMBDA c : c # old)
    ELSE [i \in 1..Len(s) |-> IF s[i] = old THEN new[1] ELSE s[i]]

\* c in s
Contains(s, c) == \E i \in 1..Len(s) : s[i] = c

\* a character str.isdigit() accepts: a decimal digit, or a digit that is not
\* decimal, such as the superscript two
IsDigitChar(c) == IsDigit(c) \/ c = "sup2"

\* str.isdigit(): not empty and every character a digit
isdigit(s) == s # <<>> /\ \A i \in 1..Len(s) : IsDigitChar(s[i])

\* an amount units / 10^scale, kept without trailing zeros in the fraction so
\* that equal amounts are equal values
RECURSIVE Decimal(_, _)
Decimal(units, scale) ==
    IF scale > 0 /\ units % 10 = 0 THEN Decimal(units \div 10, scale - 1)
    ELSE [units |-> units, scale |-> scale]

Zero == Decimal(0, 0)

\* the number a string of digits writes
DigitsValue(s) ==
    LET RECURSIVE Value(_)
        Value(n) ==
            IF n = 0 THEN 0
            ELSE Value(n - 1) * 10
                   + (CHOOSE i \in 1..Len(DigitChars) : DigitChars[i] = s[n])
                   - 1
    IN Value(Len(s))

\* float(s) raised ValueError
ValueError == [units |-> -1, scale |-> -1]

\* game has no key 'current_price' yet
NoAmount == [units |-> -1, scale |-> 0]

\* float(s) for a string of digits and dots: a numeral has at most one dot and
\* at least one digit ("1." and ".5" are numerals, "." and "1.2.3" are not)
float(s) ==
    IF \/ Cardinality({i \in 1..Len(s) : s[i] = "."}) > 1
       \/ ~\E i \in 1..Len(s) : IsDigit(s[i])
    THEN ValueError
    ELSE LET dot == IF Contains(s, ".")
                    THEN CHOOSE i \in 1..Len(s) : s[i] = "."
                    ELSE Len(s)
         IN Decimal(DigitsValue(SelectSeq(s, IsDigit)), Len(s) - dot)

\* mutant of CentsSplice: the digits are taken as whole units
WholeUnits(s) == s

\* cleaned_price_str[:-2] + '.' + cleaned_price_str[-2:], line 366
CentsSplice(s) ==
    SubSeq(s, 1, Len(s) - 2) \o <<".">> \o SubSeq(s, Len(s) - 1, Len(s))

\* the branch of lines 353-376 a cleaned string takes
PriceBranch(s) ==
    IF Contains(s, ",") THEN "comma"
    ELSE IF Contains(s, ".") THEN "dot"
    ELSE IF isdigit(s) THEN "digits"
    ELSE "unexpected"

\* the value lines 353-372 compute, or ValueError
PriceValue(s) ==
    CASE PriceBranch(s) = "comma" ->
             LET numeric_str == replace(replace(s, ".", <<>>), ",", <<".">>)
             IN IF numeric_str # <<>> THEN float(numeric_str) ELSE Zero
      [] PriceBranch(s) = "dot" ->
             LET numeric_str == replace(s, ",", <<>>)
             IN IF numeric_str # <<>> THEN float(numeric_str) ELSE Zero
      [] PriceBranch(s) = "digits" ->
             IF Len(s) >= 2 THEN float(CentsSplice(s))
             ELSE IF Len(s) = 1 THEN float(s)
             ELSE Zero
      [] OTHER -> Zero

PriceIdle ==
    /\ price_pc = "idle"
    /\ price_elem = FALSE
    /\ price_text = <<>>
    /\ current_price = NoAmount
    /\ price_warning = ""

\* lines 345-372: the text is parsed by one of the three numeric branches
PriceParsed ==
    /\ price_pc = "price"
    /\ price_elem
    /\ PriceBranch(cleaned_price_str(price_text)) # "unexpected"
    /\ PriceValue(cleaned_price_str(price_text)) # ValueError
    /\ current_price' = PriceValue(cleaned_price_str(price_text))
    /\ price_pc' = "link"
    /\ UNCHANGED <<price_elem, price_text, price_warning>>
    /\ UNCHANGED priceRest

\* lines 373-376: neither a separator nor a run of digits
PriceUnexpected ==
    /\ price_pc = "price"
    /\ price_elem
    /\ PriceBranch(cleaned_price_str(price_text)) = "unexpected"
    /\ current_price' = Zero
    /\ price_warning' = "unexpected format"
    /\ price_pc' = "link"
    /\ UNCHANGED <<price_elem, price_text>>
    /\ UNCHANGED priceRest

\* mutant of PriceValueError: the ValueError of float() is not caught
PriceValueErrorEscapes ==
    /\ price_pc = "price"
    /\ price_elem
    /\ PriceValue(cleaned_price_str(price_text)) = ValueError
    /\ price_warning' = "ValueError"
    /\ price_pc' = "raised"
    /\ UNCHANGED <<price_elem, price_text, current_price>>
    /\ UNCHANGED priceRest

\* lines 378-381: float() raised ValueError
PriceValueError ==
    /\ price_pc = "price"
    /\ price_elem
    /\ PriceValue(cleaned_price_str(price_text)) = ValueError
    /\ current_price' = Zero
    /\ price_warning' = "ValueError"
    /\ price_pc' = "link"
    /\ UNCHANGED <<price_elem, price_text>>
    /\ UNCHANGED priceRest

\* lines 382-385: the card has no price element
PriceNoElement ==
    /\ price_pc = "price"
    /\ ~price_elem
    /\ current_price' = Zero
    /\ price_warning' = "no price"
    /\ price_pc' = "link"
    /\ UNCHANGED <<price_elem, price_text>>
    /\ UNCHANGED priceRest

\* ---- the price history of a card, lines 420-449

\* calendar dates <<year, month, day>> the cells may show; the last one is
\* later than the day of the run, 2024-03-11
CalendarDates ==
    {<<2024, 1, 10>>, <<2024, 2, 9>>, <<2024, 3, 10>>, <<2024, 3, 12>>}

\* the first cell of a row: a text the date parser reads as a date, a text
\* it rejects, an empty text, or no cell at all
DateCell(d) == [kind |-> "date", date |-> d]
BadCell == [kind |-> "bad", date |-> <<0, 0, 0>>]
EmptyCell == [kind |-> "empty", date |-> <<0, 0, 0>>]
NoCell == [kind |-> "no_td", date |-> <<0, 0, 0>>]

Cells == {DateCell(d) : d \in CalendarDates} \cup {BadCell, EmptyCell, NoCell}

IsLeap(y) == (y % 4 = 0 /\ y % 100 # 0) \/ y % 400 = 0

DaysInMonth(y, m) ==
    IF m = 2 THEN (IF IsLeap(y) THEN 29 ELSE 28)
    ELSE IF m \in {4, 6, 9, 11} THEN 30
    ELSE 31

RECURSIVE DaysBeforeMonth(_, _)
DaysBeforeMonth(y, m) ==
    IF m = 1 THEN 0
    ELSE DaysBeforeMonth(y, m - 1) + DaysInMonth(y, m - 1)

\* datetime.toordinal(): the day number of a calendar date; differences of
\* datetimes at midnight are differences of day numbers
toordinal(d) ==
    LET y == d[1] - 1
    IN 365 * y + (y \div 4) - (y \div 100) + (y \div 400)
           + DaysBeforeMonth(d[1], d[2]) + d[3]

\* parser.parse(date_str) of a date text: a datetime at midnight
parse(cell) == toordinal(cell.date)

\* strftime('%Y-%m-%d'): the calendar date of a day number
strftime(n) == CHOOSE d \in CalendarDates : toordinal(d) = n

\* list.insert keeping the list in descending order
RECURSIVE InsertDescending(_, _)
InsertDescending(s, x) ==
    IF s = <<>> THEN <<x>>
    ELSE IF x >= Head(s) THEN <<x>> \o s
    ELSE <<Head(s)>> \o InsertDescending(Tail(s), x)

\* mutant of SortDescending: the list is left in the order of the table
Unsorted(s) == s

\* mutant of SortDescending: dates.sort() without reverse=True
RECURSIVE InsertAscending(_, _)
InsertAscending(s, x) ==
    IF s = <<>> THEN <<x>>
    ELSE IF x <= Head(s) THEN <<x>> \o s
    ELSE <<Head(s)>> \o InsertAscending(Tail(s), x)

RECURSIVE SortAscending(_)
SortAscending(s) ==
    IF s = <<>> THEN <<>>
    ELSE InsertAscending(SortAscending(Tail(s)), Head(s))

\* dates.sort(reverse=True), line 440
RECURSIVE SortDescending(_)
SortDescending(s) ==
    IF s = <<>> THEN <<>>
    ELSE InsertDescending(SortDescending(Tail(s)), Head(s))

\* mutant of KeepGap: only strictly positive gaps are kept
KeepPositiveGap(gap) == gap > 0

\* the filter of line 444: (dates[i] - dates[i+1]).days >= 0
KeepGap(gap) == gap >= 0

\* diff_days, line 444
diff_days(sorted) ==
    SelectSeq([i \in 1..(Len(sorted) - 1) |-> sorted[i] - sorted[i + 1]],
              KeepGap)

RECURSIVE sum(_)
sum(s) == IF s = <<>> THEN 0 ELSE Head(s) + sum(Tail(s))

RECURSIVE GCD(_, _)
GCD(a, b) == IF b = 0 THEN a ELSE GCD(b, a % b)

\* a / b for a >= 0 and b > 0, as a fraction in lowest terms
Quotient(a, b) == [num |-> a \div GCD(a, b), den |-> b \div GCD(a, b)]

HistoryIdle ==
    /\ history_pc = "idle"
    /\ history_table = FALSE
    /\ history_cells = <<>>
    /\ row_i = 0
    /\ today = <<0, 0, 0>>
    /\ dates = <<>>
    /\ last_discount = None
    /\ days_since_last_discount = None
    /\ avg_days_between_discounts = None

\* lines 447-449: no price-history table; the three fields stay None
NoHistoryTable ==
    /\ history_pc = "table"
    /\ ~history_table
    /\ history_pc' = "done"
    /\ UNCHANGED <<history_table, history_cells, row_i, today, dates,
                   last_discount, days_since_last_discount,
                   avg_days_between_discounts>>
    /\ UNCHANGED historyRest

\* lines 425-427
HistoryTable ==
    /\ history_pc = "table"
    /\ history_table
    /\ dates' = <<>>
    /\ row_i' = 1
    /\ history_pc' = "rows"
    /\ UNCHANGED <<history_table, history_cells, today, last_discount,
                   days_since_last_discount, avg_days_between_discounts>>
    /\ UNCHANGED historyRest

\* lines 429-435: the cell holds a date
RowParsed ==
    /\ history_pc = "rows"
    /\ row_i <= Len(history_cells)
    /\ history_cells[row_i].kind = "date"
    /\ dates' = Append(dates, parse(history_cells[row_i]))
    /\ row_i' = row_i + 1
    /\ UNCHANGED <<history_pc, history_table, history_cells, today,
                   last_discount, days_since_last_discount,
                   avg_days_between_discounts>>
    /\ UNCHANGED historyRest

\* lines 430 and 434: the row has no cell, or its text is empty
RowSkipped ==
    /\ history_pc = "rows"
    /\ row_i <= Len(history_cells)
    /\ history_cells[row_i].kind \in {"no_td", "empty"}
    /\ row_i' = row_i + 1
    /\ UNCHANGED <<history_pc, history_table, history_cells, today, dates,
                   last_discount, days_since_last_discount,
                   avg_days_between_discounts>>
    /\ UNCHANGED historyRest

\* lines 436-438: parser.parse raises; the row is logged and skipped
RowUnparseable ==
    /\ history_pc = "rows"
    /\ row_i <= Len(history_cells)
    /\ history_cells[row_i].kind = "bad"
    /\ row_i' = row_i + 1
    /\ UNCHANGED <<history_pc, history_table, history_cells, today, dates,
                   last_discount, days_since_last_discount,
                   avg_days_between_discounts>>
    /\ UNCHANGED historyRest

\* line 439: no date was parsed; the three fields stay None
HistoryNoDates ==
    /\ history_pc = "rows"
    /\ row_i > Len(history_cells)
    /\ dates = <<>>
    /\ history_pc' = "done"
    /\ UNCHANGED <<history_table, history_cells, row_i, today, dates,
                   last_discount, days_since_last_discount,
                   avg_days_between_discounts>>
    /\ UNCHANGED historyRest

\* lines 439-446
HistoryStats ==
    /\ history_pc = "rows"
    /\ row_i > Len(history_cells)
    /\ dates # <<>>
    /\ dates' = SortDescending(dates)
    /\ last_discount' = Some(strftime(dates'[1]))
    /\ days_since_last_discount' = Some(toordinal(today) - dates'[1])
    /\ avg_days_between_discounts' =
           IF Len(dates') > 1 /\ diff_days(dates') # <<>>
           THEN Some(Quotient(sum(diff_days(dates')),
                              Len(diff_days(dates'))))
           ELSE None
    /\ history_pc' = "done"
    /\ UNCHANGED <<history_table, history_cells, row_i, today>>
    /\ UNCHANGED historyRest

\* ---- the quality scores of a card, lines 408-418, their row in the store
\* (lines 53-76) and their average (lines 558-563)

NoElem == [found |-> FALSE, text |-> <<>>]
Elem(text) == [found |-> TRUE, text |-> text]

\* the entries tried: none, or one with a text of at most MaxScoreLen
\* characters; "sup2" stands for the superscript two
ScoreElems ==
    {NoElem} \cup
    {Elem(t) : t \in UNION {[1..n -> {"0", "8", " ", "x", "sup2"}] :
                                n \in 0..MaxScoreLen}}

\* str.strip(): leading and trailing blanks removed
strip(s) ==
    LET inked == {i \in 1..Len(s) : s[i] # " "}
    IN IF inked = {} THEN <<>>
       ELSE SubSeq(s, CHOOSE i \in inked : \A j \in inked : i <= j,
                      CHOOSE i \in inked : \A j \in inked : i >= j)

\* int(s) raises ValueError unless every character is a decimal digit
IntRaises(s) == s = <<>> \/ \E i \in 1..Len(s) : ~IsDigit(s[i])

\* line 410 / 413: elem and elem.text.strip().isdigit()
HasScore(elem) == elem.found /\ isdigit(strip(elem.text))

\* mutant of ScoreOf: a missing or malformed entry counts as zero
ScoreOrZero(elem) ==
    IF HasScore(elem) THEN Some(DigitsValue(strip(elem.text))) ELSE Some(0)

\* int(elem.text.strip()) if ... else None
ScoreOf(elem) ==
    IF HasScore(elem) THEN Some(DigitsValue(strip(elem.text))) ELSE None

\* a column value of a row of table games
SqlNull == [null |-> TRUE, value |-> 0]
SqlValue(v) == [null |-> FALSE, value |-> v]

\* the value sqlite3 binds for a Python value: None is stored as NULL
Bind(x) == IF x = None THEN SqlNull ELSE SqlValue(x[1])

\* the score columns save_game_to_db writes, lines 60-69
ScoreRow(m, o, s) ==
    [metascore |-> Bind(m), openscore |-> Bind(o), steam_score |-> Bind(s)]

\* pd.read_sql_query and pd.to_numeric(column, errors='coerce'): NULL is read
\* as NaN (None here), a number as itself
to_numeric(cell) == IF cell.null THEN None ELSE Some(cell.value)

\* DataFrame.mean(axis=1): the mean of the values that are not NaN, NaN if
\* there is none
mean(row) ==
    LET present == SelectSeq(<<to_numeric(row.metascore),
                               to_numeric(row.openscore),
                               to_numeric(row.steam_score)>>,
                             LAMBDA x : x # None)
    IN IF present = <<>> THEN None
       ELSE Some(Quotient(sum([i \in 1..Len(present) |-> present[i][1]]),
                          Len(present)))

ScoreIdle ==
    /\ score_pc = "idle"
    /\ metacritic_elem = NoElem
    /\ opencritic_elem = NoElem
    /\ metascore = None
    /\ openscore = None
    /\ steam_score = None
    /\ score_rows = <<>>
    /\ avg_score = None

\* lines 409-410
Metascore ==
    /\ score_pc = "meta"
    /\ ~(HasScore(metacritic_elem) /\ IntRaises(strip(metacritic_elem.text)))
    /\ metascore' = ScoreOf(metacritic_elem)
    /\ score_pc' = "open"
    /\ UNCHANGED <<metacritic_elem, opencritic_elem, openscore, steam_score,
                   score_rows, avg_score>>
    /\ UNCHANGED scoreRest

\* isdigit() accepted a text int() rejects: the ValueError reaches line 456
MetascoreRaises ==
    /\ score_pc = "meta"
    /\ HasScore(metacritic_elem) /\ IntRaises(strip(metacritic_elem.text))
    /\ score_pc' = "excluded"
    /\ UNCHANGED <<metacritic_elem, opencritic_elem, metascore, openscore,
                   steam_score, score_rows, avg_score>>
    /\ UNCHANGED scoreRest

\* lines 412-413
Openscore ==
    /\ score_pc = "open"
    /\ ~(HasScore(opencritic_elem) /\ IntRaises(strip(opencritic_elem.text)))
    /\ openscore' = ScoreOf(opencritic_elem)
    /\ score_pc' = "save"
    /\ UNCHANGED <<metacritic_elem, opencritic_elem, metascore, steam_score,
                   score_rows, avg_score>>
    /\ UNCHANGED scoreRest

OpenscoreRaises ==
    /\ score_pc = "open"
    /\ HasScore(opencritic_elem) /\ IntRaises(strip(opencritic_elem.text))
    /\ score_pc' = "excluded"
    /\ UNCHANGED <<metacritic_elem, opencritic_elem, metascore, openscore,
                   steam_score, score_rows, avg_score>>
    /\ UNCHANGED scoreRest

\* lines 468-469 and 58-71: the record is written to table games
SaveScores ==
    /\ score_pc = "save"
    /\ score_rows' = Append(score_rows,
                            ScoreRow(metascore, openscore, steam_score))
    /\ score_pc' = "average"
    /\ UNCHANGED <<metacritic_elem, opencritic_elem, metascore, openscore,
                   steam_score, avg_score>>
    /\ UNCHANGED scoreRest

\* analyze_and_recommend, lines 558-563, on the row read back from the store
AverageScores ==
    /\ score_pc = "average"
    /\ avg_score' = mean(score_rows[Len(score_rows)])
    /\ score_pc' = "done"
    /\ UNCHANGED <<metacritic_elem, opencritic_elem, metascore, openscore,
                   steam_score, score_rows>>
    /\ UNCHANGED scoreRest

\* ---- the HTML cache, lines 78-128

\* URLs are sequences of pieces: a letter, the separators the file name
\* replaces, the character that replaces them, and the word "steamdb"
Urls ==
    {<<"a", ":">>, <<"steamdb", "_", "a">>}
    \cup UNION {[1..n -> {"a", "/", "_"}] : n \in 1..MaxUrlLen}

\* html texts, as sequences of characters; CR and LF are the carriage return
\* and the line feed
Texts == {<<"x">>, <<"y", "CR", "LF">>}

\* a key: one of the two families of cache functions, and a URL
Keys == {"general", "steamdb"} \X Urls

\* url.replace("/", "_").replace(":", "_")
SafeName(url) == replace(replace(url, "/", <<"_">>), ":", <<"_">>)

\* line 80 (os.path.join(CACHE_DIR, ...) is the same for every file)
get_html_cache_filename(url) == SafeName(url) \o <<".html">>

\* line 106
get_steamdb_cache_filename(url) ==
    <<"steamdb", "_">> \o SafeName(url) \o <<".html">>

FileOf(key) ==
    IF key[1] = "general" THEN get_html_cache_filename(key[2])
    ELSE get_steamdb_cache_filename(key[2])

\* lines 87-88 and 113-114: f.read() of a file opened with open(cache_file,
\* 'r', encoding='utf-8'), which turns every CR LF and every other CR into LF
RECURSIVE read(_)
read(text) ==
    IF text = <<>> THEN <<>>
    ELSE IF text[1] = "CR"
    THEN <<"LF">> \o read(IF Len(text) >= 2 /\ text[2] = "LF"
                          THEN SubSeq(text, 3, Len(text))
                          ELSE Tail(text))
    ELSE <<text[1]>> \o read(Tail(text))

\* get_html_from_cache / get_steamdb_html_from_cache: the content of the
\* file as read() gives it, None if there is no such file
CacheGet(key) ==
    IF \E f \in files : f.name = FileOf(key)
    THEN Some(read((CHOOSE f \in files : f.name = FileOf(key)).text))
    ELSE None

CacheIdle ==
    /\ files = {}
    /\ put_log = {}
    /\ puts = 0
    /\ got = <<>>

\* save_html_to_cache / save_steamdb_html_to_cache, the write succeeds: the
\* file holds the characters of the text (on a POSIX build f.write changes
\* none)
CachePut(key, text) ==
    /\ puts < MaxPuts
    /\ files' = {f \in files : f.name # FileOf(key)}
                    \cup {[name |-> FileOf(key), text |-> text]}
    /\ put_log' = {e \in put_log : e.key # key}
                      \cup {[key |-> key, text |-> text]}
    /\ puts' = puts + 1
    /\ UNCHANGED got
    /\ UNCHANGED cacheRest

\* open() raises; caught and logged (lines 101 and 127)
CachePutFails(key) ==
    /\ puts < MaxPuts
    /\ puts' = puts + 1
    /\ UNCHANGED <<files, put_log, got>>
    /\ UNCHANGED cacheRest

\* get_html_from_cache / get_steamdb_html_from_cache
CacheRead(key) ==
    /\ got' = <<key, CacheGet(key)>>
    /\ got' # got
    /\ UNCHANGED <<files, put_log, puts>>
    /\ UNCHANGED cacheRest

\* lines 89-91 and 115-117: the file is there and reading it raises; the
\* error is logged and the function returns None
CacheReadFails(key) ==
    /\ \E f \in files : f.name = FileOf(key)
    /\ got' = <<key, None>>
    /\ got' # got
    /\ UNCHANGED <<files, put_log, puts>>
    /\ UNCHANGED cacheRest

\* ---- the HTTP requests of one card: the listing page (line 303), the
\* detail page (lines 398-406), search_steamdb (lines 130-161),
\* get_steam_rating (lines 163-207) and line 418

Timeout == 15      \* timeout=15 of session.get, in seconds

AppIds == {"111"}

\* what a search page holds: no '.app a' link, a link to an app, or a link
\* whose href has fewer than three parts
SearchPages == {"no result", "bad href"} \cup AppIds

\* what an app page holds: no review element or no percentage in its label,
\* or the text the regular expression ([\d\.]+)% captures
RatingPages == {<<>>, <<"8", "0">>, <<".">>}

SearchUrl(title) == <<"search", title>>
AppUrl(id) == <<"app", id>>

\* the app URL of the text "None" is the one formatted from a missing id
SdbUrls ==
    {SearchUrl(t) : t \in Titles} \cup {AppUrl(a) : a \in AppIds \cup {"None"}}

\* one HTTP GET: which page, whether headers=headers was passed, and the
\* timeout passed (None if none)
Request(kind, headers, timeout) ==
    [kind |-> kind, headers |-> headers, timeout |-> timeout]

ResolverIdle ==
    /\ rating_pc = "idle"
    /\ card_title = ""
    /\ sdb_cache = [u \in SdbUrls |-> None]
    /\ app_id = None
    /\ steam_score_str = None
    /\ rating_score = None
    /\ card_io = {}
    /\ sent = {}
    /\ looked_up = 0

\* a listing html with a card of title t is about to be requested
StartCard(t) ==
    /\ rating_pc \in {"idle", "added", "excluded"}
    /\ looked_up < MaxLookups
    /\ looked_up' = looked_up + 1
    /\ card_title' = t
    /\ app_id' = None
    /\ steam_score_str' = None
    /\ rating_score' = None
    /\ card_io' = {}
    /\ rating_pc' = "listing"
    /\ UNCHANGED <<sdb_cache, sent>>
    /\ UNCHANGED resolverRest

\* line 303: session.get(url, headers=headers, timeout=15)
ListingRequest ==
    /\ rating_pc = "listing"
    /\ sent' = sent \cup {Request("listing", TRUE, Some(Timeout))}
    /\ card_io' = card_io \cup {"listing_get"}
    /\ rating_pc' = "detail"
    /\ UNCHANGED <<card_title, sdb_cache, app_id, steam_score_str,
                   rating_score, looked_up>>
    /\ UNCHANGED resolverRest

\* lines 398-400: the detail html is in the cache
DetailFromCache ==
    /\ rating_pc = "detail"
    /\ card_io' = card_io \cup {"detail_cache"}
    /\ rating_pc' = "search"
    /\ UNCHANGED <<card_title, sdb_cache, app_id, steam_score_str,
                   rating_score, sent, looked_up>>
    /\ UNCHANGED resolverRest

\* lines 402-406: session.get(detail_url, headers=headers, timeout=15); a
\* RequestException skips the card (line 455)
DetailRequest(ok) ==
    /\ rating_pc = "detail"
    /\ sent' = sent \cup {Request("detail", TRUE, Some(Timeout))}
    /\ card_io' = card_io \cup {"detail_cache", "detail_get"}
    /\ rating_pc' = IF ok THEN "search" ELSE "excluded"
    /\ UNCHANGED <<card_title, sdb_cache, app_id, steam_score_str,
                   rating_score, looked_up>>
    /\ UNCHANGED resolverRest

\* lines 152-161: the app id the first result of a search html gives
SearchResult(html) == IF html \in AppIds THEN Some(html) ELSE None

\* lines 157-161: the html has no '.app a' element
NoResult(html) == IF html = "no result" THEN {"no_result"} ELSE {}

\* search_steamdb, lines 136-139: the search html is in the cache
SearchCached ==
    /\ rating_pc = "search"
    /\ sdb_cache[SearchUrl(card_title)] # None
    /\ LET html == sdb_cache[SearchUrl(card_title)][1]
       IN /\ card_io' = card_io \cup {"search_cache"} \cup NoResult(html)
          /\ app_id' = SearchResult(html)
          /\ rating_pc' = IF html = "bad href" THEN "excluded" ELSE "rating"
    /\ UNCHANGED <<card_title, sdb_cache, steam_score_str, rating_score,
                   sent, looked_up>>
    /\ UNCHANGED resolverRest

\* lines 141-146: requests.get(search_url), then the html is cached (the
\* write may fail silently)
SearchFetched(html, saved) ==
    /\ rating_pc = "search"
    /\ sdb_cache[SearchUrl(card_title)] = None
    /\ sent' = sent \cup {Request("search", FALSE, None)}
    /\ card_io' = card_io \cup {"search_cache", "search_get"}
                        \cup NoResult(html)
    /\ sdb_cache' = IF saved
                    THEN [sdb_cache EXCEPT ![SearchUrl(card_title)] =
                                               Some(html)]
                    ELSE sdb_cache
    /\ app_id' = SearchResult(html)
    /\ rating_pc' = IF html = "bad href" THEN "excluded" ELSE "rating"
    /\ UNCHANGED <<card_title, steam_score_str, rating_score, looked_up>>
    /\ UNCHANGED resolverRest

\* lines 147-149: the search request fails; search_steamdb returns None
SearchFetchError ==
    /\ rating_pc = "search"
    /\ sdb_cache[SearchUrl(card_title)] = None
    /\ sent' = sent \cup {Request("search", FALSE, None)}
    /\ card_io' = card_io \cup {"search_cache", "search_get",
                              "search_error"}
    /\ app_id' = None
    /\ rating_pc' = "rating"
    /\ UNCHANGED <<card_title, sdb_cache, steam_score_str, rating_score,
                   looked_up>>
    /\ UNCHANGED resolverRest

\* mutant of NoAppId: the guard of get_steam_rating is missing
GuardMissing(id) == FALSE

\* line 165: not app_id
NoAppId(id) == id = None

\* line 168: f'https://steamdb.info/app/{app_id}/'
RatingUrl(id) == AppUrl(IF id = None THEN "None" ELSE id[1])

\* lines 188-207: the captured percentage, None if the html shows none
RatingResult(html) == IF html = <<>> THEN None ELSE Some(html)

\* lines 188-207: the html has no review element, no aria-label or no
\* percentage in the label
NoRating(html) == IF RatingResult(html) = None THEN {"no_rating"} ELSE {}

\* get_steam_rating, lines 165-166
RatingNoAppId ==
    /\ rating_pc = "rating"
    /\ NoAppId(app_id)
    /\ steam_score_str' = None
    /\ rating_pc' = "score"
    /\ UNCHANGED <<card_title, sdb_cache, app_id, rating_score, card_io,
                   sent, looked_up>>
    /\ UNCHANGED resolverRest

\* lines 172-175 and 188-207: the app html is in the cache
RatingCached ==
    /\ rating_pc = "rating"
    /\ ~NoAppId(app_id)
    /\ sdb_cache[RatingUrl(app_id)] # None
    /\ card_io' = card_io \cup {"app_cache"}
                        \cup NoRating(sdb_cache[RatingUrl(app_id)][1])
    /\ steam_score_str' = RatingResult(sdb_cache[RatingUrl(app_id)][1])
    /\ rating_pc' = "score"
    /\ UNCHANGED <<card_title, sdb_cache, app_id, rating_score, sent,
                   looked_up>>
    /\ UNCHANGED resolverRest

\* lines 177-182 and 188-207: requests.get(app_url), then the html is cached
RatingFetched(html, saved) ==
    /\ rating_pc = "rating"
    /\ ~NoAppId(app_id)
    /\ sdb_cache[RatingUrl(app_id)] = None
    /\ sent' = sent \cup {Request("app", FALSE, None)}
    /\ card_io' = card_io \cup {"app_cache", "app_get"} \cup NoRating(html)
    /\ sdb_cache' = IF saved
                    THEN [sdb_cache EXCEPT ![RatingUrl(app_id)] = Some(html)]
                    ELSE sdb_cache
    /\ steam_score_str' = RatingResult(html)
    /\ rating_pc' = "score"
    /\ UNCHANGED <<card_title, app_id, rating_score, looked_up>>
    /\ UNCHANGED resolverRest

\* lines 183-185: the request fails; get_steam_rating returns None
RatingFetchError ==
    /\ rating_pc = "rating"
    /\ ~NoAppId(app_id)
    /\ sdb_cache[RatingUrl(app_id)] = None
    /\ sent' = sent \cup {Request("app", FALSE, None)}
    /\ card_io' = card_io \cup {"app_cache", "app_get", "app_error"}
    /\ steam_score_str' = None
    /\ rating_pc' = "score"
    /\ UNCHANGED <<card_title, sdb_cache, app_id, rating_score, looked_up>>
    /\ UNCHANGED resolverRest

\* mutant of HasRating: line 418 converts whatever get_steam_rating returned
AlwaysConverted(s) == TRUE

\* line 418: the condition "if steam_score_str"
HasRating(s) == s # None

\* the text float() is given at line 418
RatingText(s) == IF s = None THEN <<>> ELSE s[1]

\* line 418: float(steam_score_str) if steam_score_str else None; an
\* exception of float() reaches line 456
SteamScore ==
    /\ rating_pc = "score"
    /\ IF ~HasRating(steam_score_str)
       THEN rating_score' = None /\ rating_pc' = "done"
       ELSE IF float(RatingText(steam_score_str)) = ValueError
       THEN rating_score' = None /\ rating_pc' = "excluded"
       ELSE rating_score' = Some(float(RatingText(steam_score_str)))
            /\ rating_pc' = "done"
    /\ UNCHANGED <<card_title, sdb_cache, app_id, steam_score_str, card_io,
                   sent, looked_up>>
    /\ UNCHANGED resolverRest

\* lines 420-449: the price history raises (dates.sort or datetime.now() -
\* dates[0] on a date with a time zone); line 456 skips the card
HistoryRaises ==
    /\ rating_pc = "done"
    /\ card_io' = card_io \cup {"history_error"}
    /\ rating_pc' = "excluded"
    /\ UNCHANGED <<card_title, sdb_cache, app_id, steam_score_str,
                   rating_score, sent, looked_up>>
    /\ UNCHANGED resolverRest

\* lines 467-469: all_games.append(game), then save_game_to_db(game), whose
\* INSERT may fail (line 74 logs it and goes on)
AppendCard(saved) ==
    /\ rating_pc = "done"
    /\ card_io' = card_io \cup {"append"}
                        \cup (IF saved THEN {"db_write"}
                              ELSE {"db_write_failed"})
    /\ rating_pc' = "added"
    /\ UNCHANGED <<card_title, sdb_cache, app_id, steam_score_str,
                   rating_score, sent, looked_up>>
    /\ UNCHANGED resolverRest

\* ---- analyze_and_recommend, lines 556-589, on frames of at most MaxItems
\* rows.  A float is an exact fraction [num, den] in lowest terms, NaN is None

DefaultDays == 365     \* fillna(365), line 579

\* the float 1 / 0 of a pandas division
Inf == [num |-> 1, den |-> 0]

Number(n) == Quotient(n, 1)

\* x + y, x * y and x / y on fractions that are not negative; x - y for x >= y
Plus(x, y) ==
    IF x.den = 0 \/ y.den = 0 THEN Inf
    ELSE Quotient(x.num * y.den + y.num * x.den, x.den * y.den)

Minus(x, y) == Quotient(x.num * y.den - y.num * x.den, x.den * y.den)

Times(x, y) ==
    IF x.den = 0 \/ y.den = 0 THEN Inf
    ELSE Quotient(x.num * y.num, x.den * y.den)

Over(x, y) ==
    IF y.num = 0 THEN Inf ELSE Quotient(x.num * y.den, x.den * y.num)

Less(x, y) == x.num * y.den < y.num * x.den

\* Series.fillna(v)
fillna(x, v) == IF x = None THEN Some(v) ELSE x

\* Series.max() and Series.min(): NaN is skipped, NaN if nothing is left
max(column) ==
    LET present == {x \in Range(column) : x # None}
    IN IF present = {} THEN None
       ELSE CHOOSE x \in present : \A y \in present : ~Less(x[1], y[1])

min(column) ==
    LET present == {x \in Range(column) : x # None}
    IN IF present = {} THEN None
       ELSE CHOOSE x \in present : \A y \in present : ~Less(y[1], x[1])

\* line 558: pd.to_numeric(df['current_price'], errors='coerce').fillna(0)
current_price_of(row) ==
    LET x == to_numeric(row.current_price)
    IN fillna(IF x = None THEN None ELSE Some(Number(x[1])), Number(0))

\* mutant of normalized_score: the division is made whatever the range is
ScoreShare(avg, lowest, highest) ==
    IF avg = None THEN None
    ELSE Some(Over(Minus(avg[1], lowest[1]), Minus(highest[1], lowest[1])))

\* mutant of normalized_price: the price's share of the highest price
PriceShare(price, max_price) == Some(Over(price[1], max_price[1]))

\* lines 566-570
normalized_price(price, max_price) ==
    IF max_price # None /\ Less(Number(0), max_price[1])
    THEN Some(Minus(Number(1), Over(price[1], max_price[1])))
    ELSE Some(Number(0))

\* lines 572-576: score_range is NaN if no row has a score, and NaN > 0 is
\* False
normalized_score(avg, lowest, highest) ==
    IF highest # None /\ Less(lowest[1], highest[1])
    THEN IF avg = None THEN None
         ELSE Some(Over(Minus(avg[1], lowest[1]),
                        Minus(highest[1], lowest[1])))
    ELSE Some(Number(0))

\* line 579: pd.to_numeric(df['days_since_last_discount']).fillna(365)
days_of(row) ==
    LET x == to_numeric(row.days_since_last_discount)
    IN IF x = None THEN DefaultDays ELSE x[1]

\* line 580: 1 / (df['days_since_last_discount'] + 1)
discount_probability(days) == Some(Over(Number(1), Number(days + 1)))

\* lines 583-587
recommendation_score(ns, np, dp) ==
    Plus(Plus(Times(Quotient(4, 10), fillna(ns, Number(0))[1]),
              Times(Quotient(3, 10), fillna(np, Number(0))[1])),
         Times(Quotient(3, 10), fillna(dp, Number(0))[1]))

\* the columns the function reads, as it leaves them in the frame
BaseRow(row) ==
    [index |-> row.index,
     current_price |-> IF row.current_price.null THEN SqlValue(0)
                       ELSE row.current_price,
     metascore |-> row.metascore,
     openscore |-> row.openscore,
     steam_score |-> row.steam_score,
     days_since_last_discount |-> SqlValue(days_of(row))]

\* lines 558-587: the frame with its derived columns, in the input's order
\* (a column \o <<>> is the column, as a tuple)
Scored(frame) ==
    LET prices == [i \in 1..Len(frame) |-> current_price_of(frame[i])] \o <<>>
        avgs == [i \in 1..Len(frame) |-> mean(frame[i])] \o <<>>
        max_price == max(prices)
        lowest == min(avgs)
        highest == max(avgs)
    IN [i \in 1..Len(frame) |->
           LET ns == normalized_score(avgs[i], lowest, highest)
               np == normalized_price(prices[i], max_price)
               dp == discount_probability(days_of(frame[i]))
           IN [base |-> BaseRow(frame[i]),
               avg_score |-> avgs[i],
               normalized_price |-> np,
               normalized_score |-> ns,
               discount_probability |-> dp,
               recommendation_score |-> recommendation_score(ns, np, dp)]]

Reverse(s) == [i \in 1..Len(s) |-> s[Len(s) + 1 - i]]

\* the rows by descending recommendation_score, rows of equal score in the
\* order they have in rows
Descending(rows) ==
    LET before(i, j) ==
            \/ Less(rows[i].recommendation_score, rows[j].recommendation_score)
            \/ /\ ~Less(rows[j].recommendation_score,
                        rows[i].recommendation_score)
               /\ j < i
        place(i) == 1 + Cardinality({j \in 1..Len(rows) : before(i, j)})
    IN [k \in 1..Len(rows) |-> rows[CHOOSE i \in 1..Len(rows) : place(i) = k]]

\* line 589: df.sort_values('recommendation_score', ascending=False) sorts
\* with numpy's quicksort, which does not promise any order for rows of equal
\* score: here they come out either in their input order or in its reverse
sort_values(rows, ties) ==
    IF ties = "kept" THEN Descending(rows) ELSE Descending(Reverse(rows))

analyze_and_recommend(frame, ties) ==
    sort_values(Scored(frame) \o <<>>, ties)

\* the frames tried (main calls the function on frames that are not empty,
\* lines 759, 809 and 828): the cells a row may hold
\* (current_price, days_since_last_discount)
PriceAndDaysCells ==
    {<<SqlNull, SqlValue(-1)>>, <<SqlValue(10), SqlNull>>,
     <<SqlValue(20), SqlValue(29)>>}
ScoreCells ==
    {<<SqlNull, SqlNull, SqlNull>>, <<SqlValue(80), SqlNull, SqlNull>>,
     <<SqlValue(80), SqlValue(90), SqlNull>>}

Frames ==
    UNION {[1..n -> PriceAndDaysCells \X ScoreCells] : n \in 1..MaxItems}

FrameOf(f) ==
    [i \in 1..Len(f) |->
        [index |-> i,
         current_price |-> f[i][1][1],
         metascore |-> f[i][2][1],
         openscore |-> f[i][2][2],
         steam_score |-> f[i][2][3],
         days_since_last_discount |-> f[i][1][2]]]

RecommendIdle ==
    /\ rec_pc = "idle"
    /\ df = <<>>
    /\ recommendations = <<>>
    /\ previous = <<>>
    /\ fed = "none"
    /\ sort_ties = "kept"
    /\ runs = 0

\* lines 761, 810 and 829: analyze_and_recommend(df.copy()), so the frame of
\* the caller keeps its cells
Recommend ==
    /\ rec_pc = "frame"
    /\ runs < MaxRuns
    /\ recommendations' = analyze_and_recommend(df, sort_ties)
    /\ previous' = recommendations
    /\ fed' = "frame"
    /\ runs' = runs + 1
    /\ rec_pc' = "ranked"
    /\ UNCHANGED <<df, sort_ties>>
    /\ UNCHANGED recommendRest

\* the same call once more, on the same frame
RecommendSame ==
    /\ rec_pc = "ranked"
    /\ runs < MaxRuns
    /\ recommendations' = analyze_and_recommend(df, sort_ties)
    /\ previous' = recommendations
    /\ fed' = "same"
    /\ runs' = runs + 1
    /\ UNCHANGED <<rec_pc, df, sort_ties>>
    /\ UNCHANGED recommendRest

\* a call on the frame the last call returned
RecommendOutput ==
    /\ rec_pc = "ranked"
    /\ runs < MaxRuns
    /\ df' = [i \in 1..Len(recommendations) |-> recommendations[i].base]
    /\ recommendations' = analyze_and_recommend(df', sort_ties)
    /\ previous' = recommendations
    /\ fed' = "output"
    /\ runs' = runs + 1
    /\ UNCHANGED <<rec_pc, sort_ties>>
    /\ UNCHANGED recommendRest

\* ---- main(), lines 741-874, run by run in one session.  What
\* get_game_data and analyze_and_recommend do inside is left to the parts
\* above: here a call returns a frame with rows, returns an empty frame, or
\* raises

MainIdle ==
    /\ main_pc = "idle"
    /\ raw_data = "absent"
    /\ processed_data = "absent"
    /\ show_processing_options = None
    /\ initial_data_loaded = FALSE
    /\ pressed = "none"
    /\ options_shown = FALSE
    /\ displayed = FALSE
    /\ main_runs = 0

\* the buttons a click can start the next run with: those the last run drew
Clickable ==
    IF main_runs = 0 THEN {"none"}
    ELSE {"none", "main"}
             \cup (IF options_shown THEN {"cache", "refresh"} ELSE {})

\* a run of the script starts; line 747: the initial load is tried while the
\* session has no processed_data
RunMain(button) ==
    /\ main_pc \in {"start", "end", "raised"}
    /\ main_runs < MaxMainRuns
    /\ button \in Clickable
    /\ main_runs' = main_runs + 1
    /\ pressed' = button
    /\ initial_data_loaded' = FALSE
    /\ displayed' = FALSE
    /\ main_pc' = IF processed_data = "absent" THEN "count" ELSE "session"
    /\ UNCHANGED <<raw_data, processed_data, show_processing_options,
                   options_shown>>
    /\ UNCHANGED mainRest

\* lines 748-754 and 771-782: SELECT COUNT(*) gives a count above 0, gives
\* 0, or raises
InitialCount(outcome) ==
    /\ main_pc = "count"
    /\ IF outcome = "rows"
       THEN /\ main_pc' = "initial"
            /\ UNCHANGED <<raw_data, processed_data>>
       ELSE /\ processed_data' = "None"
            /\ raw_data' = "None"
            /\ main_pc' = "session"
    /\ UNCHANGED <<show_processing_options, initial_data_loaded, pressed,
                   options_shown, displayed, main_runs>>
    /\ UNCHANGED mainRest

\* lines 758-760 and 765-770: get_game_data(wishlist_url, False) returns a
\* frame with rows (raw_data is set, line 760), returns an empty frame, or
\* raises (line 777)
InitialLoad(outcome) ==
    /\ main_pc = "initial"
    /\ IF outcome = "frame"
       THEN /\ raw_data' = "set"
            /\ main_pc' = "initial_df"
            /\ UNCHANGED processed_data
       ELSE /\ processed_data' = "None"
            /\ raw_data' = "None"
            /\ main_pc' = "session"
    /\ UNCHANGED <<show_processing_options, initial_data_loaded, pressed,
                   options_shown, displayed, main_runs>>
    /\ UNCHANGED mainRest

\* mutant of InitialAnalyze: the handler of line 777 resets processed_data
\* only
InitialAnalyzeKeepsRaw(ok) ==
    /\ main_pc = "initial_df"
    /\ IF ok
       THEN /\ processed_data' = "set"
            /\ initial_data_loaded' = TRUE
            /\ UNCHANGED raw_data
       ELSE /\ processed_data' = "None"
            /\ UNCHANGED <<raw_data, initial_data_loaded>>
    /\ main_pc' = "session"
    /\ UNCHANGED <<show_processing_options, pressed, options_shown,
                   displayed, main_runs>>
    /\ UNCHANGED mainRest

\* lines 761-764: analyze_and_recommend(initial_df.copy()) returns and
\* processed_data is set; or it raises and lines 777-782 set both fields to
\* None
InitialAnalyze(ok) ==
    /\ main_pc = "initial_df"
    /\ IF ok
       THEN /\ processed_data' = "set"
            /\ initial_data_loaded' = TRUE
            /\ UNCHANGED raw_data
       ELSE /\ processed_data' = "None"
            /\ raw_data' = "None"
            /\ UNCHANGED initial_data_loaded
    /\ main_pc' = "session"
    /\ UNCHANGED <<show_processing_options, pressed, options_shown,
                   displayed, main_runs>>
    /\ UNCHANGED mainRest

\* lines 787-793: the session fields that have no key yet get one
InitSessionState ==
    /\ main_pc = "session"
    /\ processed_data' = IF processed_data = "absent" THEN "None"
                         ELSE processed_data
    /\ raw_data' = IF raw_data = "absent" THEN "None" ELSE raw_data
    /\ show_processing_options' =
           IF show_processing_options = None
           THEN Some(~initial_data_loaded)
           ELSE show_processing_options
    /\ main_pc' = "button"
    /\ UNCHANGED <<initial_data_loaded, pressed, options_shown, displayed,
                   main_runs>>
    /\ UNCHANGED mainRest

\* lines 796-797: the main button toggles the processing options
MainButton ==
    /\ main_pc = "button"
    /\ show_processing_options' =
           IF pressed = "main" THEN Some(~show_processing_options[1])
           ELSE show_processing_options
    /\ main_pc' = "options"
    /\ UNCHANGED <<raw_data, processed_data, initial_data_loaded, pressed,
                   options_shown, displayed, main_runs>>
    /\ UNCHANGED mainRest

\* lines 800-838 when no processing button was clicked: the two buttons are
\* drawn if the options are shown
NoProcessing ==
    /\ main_pc = "options"
    /\ ~(show_processing_options[1] /\ pressed \in {"cache", "refresh"})
    /\ options_shown' = show_processing_options[1]
    /\ main_pc' = "display"
    /\ UNCHANGED <<raw_data, processed_data, show_processing_options,
                   initial_data_loaded, pressed, displayed, main_runs>>
    /\ UNCHANGED mainRest

\* lines 803-807 and 822-826: a processing button was clicked; the results
\* of the session are cleared before get_game_data is called
StartProcessing ==
    /\ main_pc = "options"
    /\ show_processing_options[1]
    /\ pressed \in {"cache", "refresh"}
    /\ options_shown' = TRUE
    /\ raw_data' = "None"
    /\ processed_data' = "None"
    /\ main_pc' = "processing"
    /\ UNCHANGED <<show_processing_options, initial_data_loaded, pressed,
                   displayed, main_runs>>
    /\ UNCHANGED mainRest

\* lines 808-809 and 814-819 (827-828 and 833-838): get_game_data returns a
\* frame with rows, returns an empty frame, or raises, which ends the run
Processing(outcome) ==
    /\ main_pc = "processing"
    /\ IF outcome = "frame"
       THEN /\ main_pc' = "analyze"
            /\ UNCHANGED <<raw_data, processed_data, show_processing_options>>
       ELSE IF outcome = "empty"
       THEN /\ raw_data' = "None"
            /\ processed_data' = "None"
            /\ show_processing_options' = Some(FALSE)
            /\ main_pc' = "display"
       ELSE /\ main_pc' = "raised"
            /\ UNCHANGED <<raw_data, processed_data, show_processing_options>>
    /\ UNCHANGED <<initial_data_loaded, pressed, options_shown, displayed,
                   main_runs>>
    /\ UNCHANGED mainRest

\* lines 810-812 and 819 (829-831 and 838): analyze_and_recommend returns and
\* both fields are set; or it raises, which ends the run
Analyze(ok) ==
    /\ main_pc = "analyze"
    /\ IF ok
       THEN /\ raw_data' = "set"
            /\ processed_data' = "set"
            /\ show_processing_options' = Some(FALSE)
            /\ main_pc' = "display"
       ELSE /\ main_pc' = "raised"
            /\ UNCHANGED <<raw_data, processed_data, show_processing_options>>
    /\ UNCHANGED <<initial_data_loaded, pressed, options_shown, displayed,
                   main_runs>>
    /\ UNCHANGED mainRest

\* lines 848-853: display_results is called if both fields are not None
Display ==
    /\ main_pc = "display"
    /\ displayed' = (processed_data # "None" /\ raw_data # "None")
    /\ main_pc' = "end"
    /\ UNCHANGED <<raw_data, processed_data, show_processing_options,
                   initial_data_loaded, pressed, options_shown, main_runs>>
    /\ UNCHANGED mainRest

\* ---- the crawl as a whole
Init ==
    /\ CrawlInit
    /\ PriceIdle /\ HistoryIdle /\ ScoreIdle /\ CacheIdle /\ ResolverIdle
    /\ RecommendIdle
    /\ MainIdle

Next ==
    \/ \E f \in BOOLEAN : Call(f)
    \/ CreateDatabaseOk \/ CreateDatabaseRaise
    \/ Tier1Hit \/ Tier1Empty \/ Tier1Error
    \/ Tier2Hit \/ Tier2Invalid \/ Tier2Missing
    \/ StartCrawl
    \/ FetchPageError \/ FetchPageNoCards
    \/ \E n \in 1..(MaxCards - cardsMet) : FetchPageCards(n)
    \/ CardNoTitle
    \/ \E t \in Titles : CardTitle(t)
    \/ ExistsRaise \/ ExistsSkip \/ ExistsNew
    \/ \E p \in Prices : ParsePrice(p)
    \/ NoDetailLink \/ HasDetailLink
    \/ DetailCached
    \/ \E cached \in BOOLEAN : DetailFetched(cached)
    \/ DetailFetchError
    \/ \E score \in Scores \cup {NULL} : RatingResolved(score)
    \/ DetailProcessingError
    \/ AppendGame
    \/ SaveGameOk \/ SaveGameError \/ SaveGameRaise
    \/ \E nav \in Paginations : NoNextPage(nav) \/ NextPage(nav)
    \/ PostReload \/ PostReloadError \/ PostNothing \/ PostExport
    \/ \E truncated \in BOOLEAN : PostExportError(truncated)

Spec == Init /\ [][Next]_vars

\* ---- the price step on every raw price text
PriceInit ==
    /\ CrawlInit /\ HistoryIdle /\ ScoreIdle /\ CacheIdle /\ ResolverIdle
    /\ RecommendIdle
    /\ MainIdle
    /\ price_pc = "price"
    /\ \/ price_elem = FALSE /\ price_text = <<>>
       \/ price_elem = TRUE /\ price_text \in PriceTexts
    /\ current_price = NoAmount
    /\ price_warning = ""

PriceNext ==
    \/ PriceParsed
    \/ PriceUnexpected
    \/ PriceValueError
    \/ PriceNoElement

PriceSpec == PriceInit /\ [][PriceNext]_vars

\* ---- the price history on every table of at most MaxRows rows
HistoryInit ==
    /\ CrawlInit /\ PriceIdle /\ ScoreIdle /\ CacheIdle /\ ResolverIdle
    /\ RecommendIdle
    /\ MainIdle
    /\ history_pc = "table"
    /\ \/ history_table = FALSE /\ history_cells = <<>>
       \/ /\ history_table = TRUE
          /\ history_cells \in UNION {[1..n -> Cells] : n \in 0..MaxRows}
    /\ row_i = 0
    /\ today = <<2024, 3, 11>>
    /\ dates = <<>>
    /\ last_discount = None
    /\ days_since_last_discount = None
    /\ avg_days_between_discounts = None

HistoryNext ==
    \/ NoHistoryTable
    \/ HistoryTable
    \/ RowParsed
    \/ RowSkipped
    \/ RowUnparseable
    \/ HistoryNoDates
    \/ HistoryStats

HistorySpec == HistoryInit /\ [][HistoryNext]_vars

\* ---- the quality scores on every pair of score entries
ScoreInit ==
    /\ CrawlInit /\ PriceIdle /\ HistoryIdle /\ CacheIdle /\ ResolverIdle
    /\ RecommendIdle
    /\ MainIdle
    /\ score_pc = "meta"
    /\ metacritic_elem \in ScoreElems
    /\ opencritic_elem \in ScoreElems
    /\ metascore = None
    /\ openscore = None
    /\ steam_score \in {None} \cup {Some(s) : s \in Scores}
    /\ score_rows = <<>>
    /\ avg_score = None

ScoreNext ==
    \/ Metascore
    \/ MetascoreRaises
    \/ Openscore
    \/ OpenscoreRaises
    \/ SaveScores
    \/ AverageScores

ScoreSpec == ScoreInit /\ [][ScoreNext]_vars

\* ---- the HTML cache under any writes and reads
CacheNext ==
    \/ \E key \in Keys, text \in Texts : CachePut(key, text)
    \/ \E key \in Keys : CachePutFails(key)
    \/ \E key \in Keys : CacheRead(key)
    \/ \E key \in Keys : CacheReadFails(key)

CacheSpec == Init /\ [][CacheNext]_vars

\* ---- the requests of MaxLookups cards, one after the other
RequestNext ==
    \/ \E t \in Titles : StartCard(t)
    \/ ListingRequest
    \/ DetailFromCache
    \/ \E ok \in BOOLEAN : DetailRequest(ok)
    \/ SearchCached
    \/ \E html \in SearchPages, saved \in BOOLEAN : SearchFetched(html, saved)
    \/ SearchFetchError
    \/ RatingNoAppId
    \/ RatingCached
    \/ \E html \in RatingPages, saved \in BOOLEAN : RatingFetched(html, saved)
    \/ RatingFetchError
    \/ SteamScore
    \/ HistoryRaises
    \/ \E saved \in BOOLEAN : AppendCard(saved)

RequestSpec == Init /\ [][RequestNext]_vars

\* ---- analyze_and_recommend on every frame tried, under either sort
RecommendInit ==
    /\ CrawlInit
    /\ PriceIdle /\ HistoryIdle /\ ScoreIdle /\ CacheIdle /\ ResolverIdle
    /\ MainIdle
    /\ rec_pc = "frame"
    /\ df \in {FrameOf(f) : f \in Frames}
    /\ recommendations = <<>>
    /\ previous = <<>>
    /\ fed = "none"
    /\ sort_ties \in {"kept", "reversed"}
    /\ runs = 0

RecommendNext ==
    \/ Recommend
    \/ RecommendSame
    \/ RecommendOutput

RecommendSpec == RecommendInit /\ [][RecommendNext]_vars

\* ---- the runs of main() in one session, under any clicks and outcomes
MainInit ==
    /\ CrawlInit
    /\ PriceIdle /\ HistoryIdle /\ ScoreIdle /\ CacheIdle /\ ResolverIdle
    /\ RecommendIdle
    /\ main_pc = "start"
    /\ raw_data = "absent"
    /\ processed_data = "absent"
    /\ show_processing_options = None
    /\ initial_data_loaded = FALSE
    /\ pressed = "none"
    /\ options_shown = FALSE
    /\ displayed = FALSE
    /\ main_runs = 0

MainNext ==
    \/ \E button \in {"none", "main", "cache", "refresh"} : RunMain(button)
    \/ \E outcome \in {"rows", "empty", "error"} : InitialCount(outcome)
    \/ \E outcome \in {"frame", "empty", "raises"} : InitialLoad(outcome)
    \/ \E ok \in BOOLEAN : InitialAnalyze(ok)
    \/ InitSessionState
    \/ MainButton
    \/ NoProcessing
    \/ StartProcessing
    \/ \E outcome \in {"frame", "empty", "raises"} : Processing(outcome)
    \/ \E ok \in BOOLEAN : Analyze(ok)
    \/ Display

MainSpec == MainInit /\ [][MainNext]_vars

\* ---- the claims
PageFailures == {"fetch_failed", "no_cards"}
LookupFailures == {"network_error", "exception"}

\* C1: in a crawl, a card whose title has a row in the store when the card is
\* processed gets no detail-page lookup (cache read or HTTP GET) and no
\* external-rating lookup, and is skipped: the step after the dedup check
\* returns to the card loop (or the check itself raises) and changes neither
\* the result list, the store, the HTML cache, the new-title counter nor the
\* input/output done.
C1_StoredTitleSkipped ==
    /\ [](\A l \in lookups : ~l.stored)
    /\ [][(pc = "exists" /\ game.title \in StoreTitles)
            => /\ pc' \in {"card", "raised"}
               /\ lookups' = lookups
               /\ io' = io
               /\ htmlCache' = htmlCache
               /\ all_games' = all_games
               /\ db' = db
               /\ games_processed_count' = games_processed_count]_vars

\* a card of a stored title has just been skipped
C1_Witness ==
    /\ pc = "card"
    /\ game.title \in StoreTitles
    /\ game.current_price = NULL
    /\ lookups = {}

\* the store as it was when the call began: no row has been written since
StoreUntouched == "db_write" \notin io

\* the snapshot as it was when the call began
SnapshotUntouched == "csv_write" \notin io

\* C2 as stated: in a call with force_refresh=False that has made its Tier-1
\* load while the store held at least one row, the call has returned the
\* rows of the store, Tier 2 and Tier 3 were not entered and no flat-cache
\* read, HTTP request or store write was made.
C2_StoreNonEmptyReturnsStore ==
    (~arg_force /\ tier1 # "none" /\ db # <<>> /\ StoreUntouched)
        => /\ pc = "returned"
           /\ result = db
           /\ tier2 = "none"
           /\ page = 0
           /\ io = {}

\* C2, amended: the same, when the Tier-1 read of the store did not fail.
C2_ReadableStoreReturnsStore ==
    (~arg_force /\ tier1 \notin {"none", "error"} /\ db # <<>>
                /\ StoreUntouched)
        => /\ pc = "returned"
           /\ tier1 = "hit"
           /\ result = db
           /\ tier2 = "none"
           /\ page = 0
           /\ io = {}

\* a second call was served from the store
C2_Witness ==
    /\ pc = "returned"
    /\ ~arg_force
    /\ tier1 = "hit"
    /\ Len(result) = 2

\* C3: in a call with force_refresh=False whose Tier-1 load found the store
\* empty or could not read it, and whose Tier-2 step found a snapshot that
\* exists, is readable and has rows, the call has returned the rows of the
\* snapshot; it made no HTTP request and no store write and did not crawl.
C3_SnapshotReturned ==
    (~arg_force /\ tier1 \in {"empty", "error"} /\ pc # "csv"
                /\ csv.state = "ok" /\ csv.rows # <<>> /\ SnapshotUntouched)
        => /\ pc = "returned"
           /\ tier2 = "hit"
           /\ result = csv.rows
           /\ page = 0
           /\ "http" \notin io
           /\ "db_write" \notin io

\* the store was empty and the call was served from the snapshot
C3_Witness ==
    /\ pc = "returned"
    /\ tier1 = "empty"
    /\ tier2 = "hit"
    /\ result # <<>>

\* C4: the crawl runs (page >= 1) only if force_refresh was requested or
\* both the store and the snapshot gave nothing usable; a call that returns
\* without having crawled was not forced and was served by Tier 1 or Tier 2;
\* the first listing page requested is page 1; a forced call makes neither
\* the Tier-1 nor the Tier-2 load, and when it returns it has crawled.
C4_CrawlIffForcedOrNoData ==
    /\ page >= 1 => \/ arg_force
                    \/ /\ tier1 \in {"empty", "error"}
                       /\ tier2 \in {"missing", "invalid"}
    /\ (pc = "returned" /\ page = 0)
          => (~arg_force /\ (tier1 = "hit" \/ tier2 = "hit"))
    /\ pc = "fetch" /\ requested = <<>> => page = 1
    /\ requested # <<>> => requested[1] = 1
    /\ arg_force => /\ tier1 = "none"
                    /\ tier2 = "none"
                    /\ "csv_read" \notin io
                    /\ (pc = "returned" => page >= 1)

\* a forced crawl has been run over a populated store and a written snapshot,
\* and has returned
C4_Witness ==
    /\ pc = "returned"
    /\ arg_force
    /\ calls = 2
    /\ csv.state = "ok"
    /\ Len(requested) = 2
    /\ db # <<>>

C6_FailedItemLeftOut ==
    /\ [][(\/ \E l \in lookups' \ lookups : l.outcome \in LookupFailures
           \/ (pc = "link" /\ game'.detail_url = ""))
            => /\ pc' = "card"
               /\ all_games' = all_games
               /\ db' = db
               /\ csv' = csv
               /\ failedWrites' = failedWrites
               /\ cardsLeft' = cardsLeft
               /\ page' = page]_vars
    /\ [](\A i \in 1..Len(all_games) :
              /\ all_games[i].detail_url # ""
              /\ all_games[i].current_price # NULL)
    /\ [](\A i \in 1..Len(db) : db[i].current_price # NULL)

\* of the two cards of one page, one was abandoned and the other was added
\* and saved
C6_Witness ==
    /\ pc = "card"
    /\ page = 1
    /\ calls = 1
    /\ cardsMet = 2
    /\ cardsLeft = 0
    /\ games_processed_count = 2
    /\ Len(all_games) = 1
    /\ failedWrites = {}
    /\ Len(db) = 1

\* C7: a listing page that cannot be fetched or has no card ends the loop:
\* that step changes neither the list nor the store and goes to the
\* post-scraping part; from there the call returns (it never raises and
\* requests no further page), the store is still unchanged and every record
\* of the list is in the returned rows.
C7_PageFailureEndsLoopOnly ==
    /\ [][(brk = "none" /\ brk' \in PageFailures)
            => /\ pc' = "post"
               /\ all_games' = all_games
               /\ db' = db
               /\ requested' = Append(requested, page)]_vars
    /\ [][(brk \in PageFailures /\ pc = "post")
            => /\ pc' = "returned"
               /\ db' = db
               /\ requested' = requested
               /\ Range(all_games) \subseteq Range(result')]_vars
    /\ [](brk \in PageFailures => pc \in {"post", "returned"})

\* page 2 could not be fetched; the record of page 1 is returned and stored
C7_Witness ==
    /\ pc = "returned"
    /\ brk = "fetch_failed"
    /\ page = 2
    /\ all_games # <<>>
    /\ result = all_games
    /\ StoreRow(all_games[1]) \in Range(db)

\* C8 as stated: after every crawl the snapshot holds exactly the list.
C8_SnapshotIsResultList ==
    (pc = "returned" /\ page >= 1) => csv = CsvOf(all_games)

\* C8, amended: a crawl that ends with a non-empty list writes exactly that
\* list to the snapshot, replacing the earlier one, unless the write fails; a
\* crawl that ends with an empty list leaves the snapshot as it was.
C8_SnapshotWrittenWhenListNonEmpty ==
    /\ []((pc = "returned" /\ page >= 1 /\ all_games # <<>>
              /\ "csv_write_failed" \notin io) => csv = CsvOf(all_games))
    /\ [](all_games = <<>> => SnapshotUntouched)
    /\ [][(pc = "post" /\ all_games = <<>>) => csv' = csv]_vars

\* the second crawl replaced the snapshot of the first by its own list
C8_Witness ==
    /\ pc = "returned"
    /\ calls = 2
    /\ page >= 1
    /\ Len(all_games) = 1
    /\ Len(db) = 2
    /\ csv = CsvOf(all_games)

\* C9: no failure leaves get_game_data as an exception.
C9_NeverRaises == pc # "raised"

\* C10: over all calls the store only grows: a step never removes or changes
\* a row, no two rows share a title, and no title is written more than once.
C10_StoreOnlyGrows ==
    /\ [][\A i \in 1..Len(db) : \E j \in 1..Len(db') : db'[j] = db[i]]_vars
    /\ [](\A i, j \in 1..Len(db) : db[i].title = db[j].title => i = j)
    /\ [](\A t \in Titles : writes[t] <= 1)

\* a forced crawl met a stored title again and added the other one
C10_Witness ==
    /\ pc = "returned"
    /\ calls = 2
    /\ arg_force
    /\ Len(all_games) = 1
    /\ \A t \in Titles : writes[t] = 1

\* ---- the price step
Text_1_234_56 == <<"1", ".", "2", "3", "4", ",", "5", "6">>
Text_1c234d56 == <<"1", ",", "2", "3", "4", ".", "5", "6">>
Text_19_99 == <<"$", "1", "9", ".", "9", "9">>
Text_1135000 == <<"1", "1", "3", "5", "0", "0", "0">>

\* C11: once the price step has run, the raw texts "1.234,56" and "1,234.56"
\* have both given the amount 1234.56, and "$19.99" has given 19.99.
C11_SeparatorsResolved ==
    price_pc = "link" =>
        /\ price_text = Text_1_234_56 => current_price = Decimal(123456, 2)
        /\ price_text = Text_1c234d56 => current_price = Decimal(123456, 2)
        /\ price_text = Text_19_99 => current_price = Decimal(1999, 2)

\* what is left of a raw text when every character other than a digit, a
\* comma and a dot is dropped
Remainder(text) ==
    SelectSeq(text, LAMBDA c : c \in {",", "."} \/ IsDigit(c))

CountOf(s, c) == Cardinality({i \in 1..Len(s) : s[i] = c})

DigitCount(s) == Cardinality({i \in 1..Len(s) : IsDigit(s[i])})

\* C12: once the price step has run on a text whose remainder holds digits
\* only, the amount is the number the digits write divided by 100 when there
\* are two or more digits ("1135000" gives 11350), that digit as whole units
\* when there is exactly one ("5" gives 5), and 0 when the remainder is empty.
C12_DigitRunInCents ==
    (price_pc = "link" /\ price_elem
        /\ DigitCount(Remainder(price_text)) = Len(Remainder(price_text)))
    => /\ Len(Remainder(price_text)) >= 2
            => current_price = Decimal(DigitsValue(Remainder(price_text)), 2)
       /\ Len(Remainder(price_text)) = 1
            => current_price = Decimal(DigitsValue(Remainder(price_text)), 0)
       /\ Len(Remainder(price_text)) = 0 => current_price = Zero
       /\ price_text = Text_1135000 => current_price = Decimal(11350, 0)
       /\ price_text = <<"5">> => current_price = Decimal(5, 0)

\* the text "1135000" has been parsed to 11350.00
C12_Witness ==
    /\ price_pc = "link"
    /\ price_text = Text_1135000
    /\ current_price = [units |-> 11350, scale |-> 0]
    /\ price_warning = ""

\* a text no rule reads as an amount: it has no digit, or several commas, or
\* no comma and several dots
Unparseable(text) ==
    \/ DigitCount(Remainder(text)) = 0
    \/ CountOf(Remainder(text), ",") > 1
    \/ CountOf(Remainder(text), ",") = 0 /\ CountOf(Remainder(text), ".") > 1

\* C13: the price step is total: no exception leaves it, from every raw text
\* and from a missing price element it can take its step, and after the step
\* the item is at the detail link with current_price a non-negative amount,
\* which is 0 when the element is missing or the text is unparseable.
C13_PriceParsingTotal ==
    /\ price_pc # "raised"
    /\ price_pc = "price" => ENABLED PriceNext
    /\ price_pc \in {"idle", "price", "link"}
    /\ price_pc = "link"
         => /\ current_price.units >= 0
            /\ current_price.scale >= 0
            /\ (~price_elem \/ Unparseable(price_text))
                  => current_price = Zero

\* a text with two dots has been given the amount 0
C13_Witness ==
    /\ price_pc = "link"
    /\ price_text = <<"1", ".", "1", ".">>
    /\ price_warning = "ValueError"
    /\ current_price = Zero

\* ---- the price history
\* D: the dates of the cells the date parser read, as a set and counted
ParsedCells == SelectSeq(history_cells, LAMBDA c : c.kind = "date")

D == {ParsedCells[i].date : i \in 1..Len(ParsedCells)}

\* calendar order of two dates <<year, month, day>>
NotLater(d, e) ==
    \/ d[1] < e[1]
    \/ d[1] = e[1] /\ d[2] < e[2]
    \/ d[1] = e[1] /\ d[2] = e[2] /\ d[3] <= e[3]

Latest(S) == CHOOSE d \in S : \A e \in S : NotLater(e, d)
Earliest(S) == CHOOSE d \in S : \A e \in S : NotLater(d, e)

\* C14: the history step ends for every table, whatever its rows hold (a
\* row the parser rejects is skipped, the item is not excluded); when it has
\* ended with D empty the three fields are absent; otherwise last_discount
\* is the latest date of D and days_since_last_discount is the number of
\* days from that date to today (1 from 2024-03-10 and 61 from 2024-01-10
\* to 2024-03-11).
C14_LastDiscountIsLatest ==
    /\ history_pc \in {"idle", "table", "rows", "done"}
    /\ history_pc = "rows" => ENABLED HistoryNext
    /\ (history_pc = "done" /\ D = {})
          => /\ last_discount = None
             /\ days_since_last_discount = None
             /\ avg_days_between_discounts = None
    /\ (history_pc = "done" /\ D # {})
          => /\ last_discount = Some(Latest(D))
             /\ days_since_last_discount =
                    Some(toordinal(today) - toordinal(Latest(D)))
             /\ (today = <<2024, 3, 11>> /\ Latest(D) = <<2024, 3, 10>>)
                    => days_since_last_discount = Some(1)
             /\ (today = <<2024, 3, 11>> /\ Latest(D) = <<2024, 1, 10>>)
                    => days_since_last_discount = Some(61)

\* a table of an older date, a rejected text and a newer date
C14_Witness ==
    /\ history_pc = "done"
    /\ history_cells =
           <<DateCell(<<2024, 1, 10>>), BadCell, DateCell(<<2024, 3, 10>>)>>
    /\ last_discount = Some(<<2024, 3, 10>>)
    /\ days_since_last_discount = Some(1)

C16_DaysSinceNonNegative ==
    history_pc = "done" =>
        /\ days_since_last_discount = None <=> D = {}
        /\ days_since_last_discount # None
              => days_since_last_discount[1] >= 0

\* ---- the quality scores
\* the text of an entry, without the blanks around it, is a non-empty string
\* of the digits 0-9
WellFormed(elem) ==
    /\ elem.found
    /\ strip(elem.text) # <<>>
    /\ \A i \in 1..Len(strip(elem.text)) :
           strip(elem.text)[i] \in {"0", "1", "2", "3", "4", "5", "6", "7",
                                    "8", "9"}

\* the score the text of an entry writes: present when well formed
Written(elem) ==
    IF WellFormed(elem) THEN Some(DigitsValue(strip(elem.text))) ELSE None

\* the scores of the record that are present, in the order of the columns
PresentScores ==
    SelectSeq(<<metascore, openscore, steam_score>>, LAMBDA x : x # None)

\* C17: in every record that gets past the score extraction, metascore and
\* openscore are present exactly when the text of their entry is well
\* formed, and then are the integer it writes ("0" gives the present value
\* 0; a missing or malformed entry gives absent, never 0); the row written
\* to the store holds NULL exactly for an absent score and the value
\* otherwise; and the score average is taken over the present scores only,
\* a present 0 included, and is absent when no score is present.
C17_AbsentIsNotZero ==
    /\ score_pc \in {"open", "save", "average", "done"}
          => /\ metascore = Written(metacritic_elem)
             /\ metascore = Some(0)
                   => /\ metacritic_elem.found
                      /\ strip(metacritic_elem.text) # <<>>
                      /\ \A i \in 1..Len(strip(metacritic_elem.text)) :
                             strip(metacritic_elem.text)[i] = "0"
    /\ score_pc \in {"save", "average", "done"}
          => /\ openscore = Written(opencritic_elem)
             /\ strip(opencritic_elem.text) = <<"0">> => openscore = Some(0)
             /\ ~opencritic_elem.found => openscore = None
    /\ score_pc \in {"average", "done"}
          => /\ Len(score_rows) = 1
             /\ score_rows[1].metascore.null <=> metascore = None
             /\ score_rows[1].openscore.null <=> openscore = None
             /\ metascore # None
                   => score_rows[1].metascore.value = metascore[1]
             /\ openscore # None
                   => score_rows[1].openscore.value = openscore[1]
    /\ score_pc = "done"
          => /\ PresentScores = <<>> <=> avg_score = None
             /\ PresentScores # <<>>
                   => avg_score =
                          Some(Quotient(
                              sum([i \in 1..Len(PresentScores) |->
                                       PresentScores[i][1]]),
                              Len(PresentScores)))
             /\ (metascore = Some(0) /\ openscore = Some(80)
                     /\ steam_score = None)
                   => avg_score = Some([num |-> 40, den |-> 1])
             /\ (metascore = None /\ openscore = Some(80)
                     /\ steam_score = None)
                   => avg_score = Some([num |-> 80, den |-> 1])

\* a record with the Metacritic text "0" and a malformed OpenCritic text:
\* the zero is stored and averaged, the other score is NULL
C17_Witness ==
    /\ score_pc = "done"
    /\ metacritic_elem = Elem(<<"0">>)
    /\ opencritic_elem = Elem(<<"8", "x">>)
    /\ steam_score = Some(80)
    /\ metascore = Some(0)
    /\ openscore = None
    /\ score_rows[1].metascore = SqlValue(0)
    /\ score_rows[1].openscore = SqlNull
    /\ avg_score = Some([num |-> 40, den |-> 1])

\* ---- the HTML cache
\* C18: the cache behaves as a map from keys (namespace and URL) to texts:
\* in every state, what a read of a key returns is the text last saved under
\* that very key, and nothing if nothing was saved under it; a save under
\* one key is never seen by a read of another key.
C18_KeysHaveTheirOwnFile ==
    \A key \in Keys :
        CacheGet(key) = IF \E e \in put_log : e.key = key
                        THEN Some((CHOOSE e \in put_log : e.key = key).text)
                        ELSE None

\* ---- the requests
\* C19: every HTTP GET issued (listing page, detail page, external-rating
\* search, external-rating detail) was passed the browser headers and a
\* timeout.
C19_RequestsCarryHeadersAndTimeout ==
    \A r \in sent : r.headers /\ r.timeout # None

\* C20: while the card has no app id, no cache lookup and no request for an
\* app page is made for it; get_steam_rating called without an id returns
\* None in one step that sends nothing and leaves the cache alone; and the
\* card then goes on with an absent score.
C20_NoIdNoRatingLookup ==
    /\ [](app_id = None
             => /\ card_io \cap {"app_cache", "app_get", "app_error"} = {}
                /\ steam_score_str = None
                /\ rating_score = None)
    /\ [][(rating_pc = "rating" /\ app_id = None)
             => /\ rating_pc' = "score"
                /\ steam_score_str' = None
                /\ sent' = sent
                /\ sdb_cache' = sdb_cache
                /\ card_io' = card_io]_vars

\* the search request of the second card failed: the card is done without
\* a score and without a lookup of the app page cached by the first card
C20_Witness ==
    /\ rating_pc = "done"
    /\ looked_up = 2
    /\ app_id = None
    /\ "search_error" \in card_io
    /\ sdb_cache[AppUrl("111")] # None
    /\ rating_score = None
    /\ Request("app", FALSE, None) \in sent

\* ---- the recommendation engine: what the claims are stated with
\* the row of the frame given that an output row was computed from
Given(r) == df[CHOOSE k \in 1..Len(df) : df[k].index = r.base.index]

\* the scores a given row holds, as a sequence of integers
GivenScores(g) ==
    LET cells == SelectSeq(<<g.metascore, g.openscore, g.steam_score>>,
                           LAMBDA c : ~c.null)
    IN [i \in 1..Len(cells) |-> cells[i].value]

ScoreTotal(g) ==
    LET s == GivenScores(g)
    IN IF Len(s) = 0 THEN 0
       ELSE IF Len(s) = 1 THEN s[1]
       ELSE IF Len(s) = 2 THEN s[1] + s[2]
       ELSE s[1] + s[2] + s[3]

GivenPrice(g) == IF g.current_price.null THEN 0 ELSE g.current_price.value

GivenDays(g) ==
    IF g.days_since_last_discount.null THEN 365
    ELSE g.days_since_last_discount.value

Scoreless(g) == GivenScores(g) = <<>>

\* the rows given that have a score, and among them one of lowest and one of
\* highest average (total / count, compared by cross-multiplication)
Rated == {k \in 1..Len(df) : ~Scoreless(df[k])}
AvgNotAbove(g, h) ==
    ScoreTotal(g) * Len(GivenScores(h)) <= ScoreTotal(h) * Len(GivenScores(g))
LowestRated == df[CHOOSE k \in Rated : \A j \in Rated : AvgNotAbove(df[k], df[j])]
HighestRated == df[CHOOSE k \in Rated : \A j \in Rated : AvgNotAbove(df[j], df[k])]
MaxGivenPrice ==
    IF df = <<>> THEN 0
    ELSE GivenPrice(df[CHOOSE k \in 1..Len(df) :
                          \A j \in 1..Len(df) :
                              GivenPrice(df[j]) <= GivenPrice(df[k])])

\* score range, as the integer (hi - lo) * n_hi * n_lo
RangePositive ==
    Rated # {} /\ ~AvgNotAbove(HighestRated, LowestRated)

\* a component of the weighted sum, absent counted as 0 / 1
Component(x) == IF x = None THEN [num |-> 0, den |-> 1] ELSE x[1]

\* C21: after a call of analyze_and_recommend, every row returned carries
\* the derived fields of the reference definitions, computed from the row
\* given: avg_score is total / count of its present scores (absent if it has
\* none); normalized_price is 1 - price / max_price (0 if max_price is 0),
\* a missing price counting as 0; normalized_score is (avg - min) / (max -
\* min), absent for a row without scores, 0 for every row if the range is 0
\* or no row has a score; days_since_last_discount is 365 if it was absent;
\* discount_probability is 1 / (days + 1) wherever days + 1 is not 0; and
\* 10 * recommendation_score = 4 * normalized_score + 3 * normalized_price
\* + 3 * discount_probability with an absent component counted as 0.  The
\* rows returned are the rows given, each once.
C21_DerivedFields ==
    rec_pc = "ranked" =>
      /\ Len(recommendations) = Len(df)
      /\ {recommendations[i].base.index : i \in 1..Len(recommendations)}
             = {df[k].index : k \in 1..Len(df)}
      /\ \A i \in 1..Len(recommendations) :
           LET r == recommendations[i]
               g == Given(r)
               n == Len(GivenScores(g))
               t == ScoreTotal(g)
               lo == LowestRated
               hi == HighestRated
               nlo == Len(GivenScores(lo))
               nhi == Len(GivenScores(hi))
               ns == Component(r.normalized_score)
               np == Component(r.normalized_price)
               dp == Component(r.discount_probability)
               rs == r.recommendation_score
           IN /\ r.base.metascore = g.metascore
              /\ r.base.openscore = g.openscore
              /\ r.base.steam_score = g.steam_score
              /\ r.base.current_price = SqlValue(GivenPrice(g))
              /\ r.base.days_since_last_discount = SqlValue(GivenDays(g))
              /\ IF n = 0 THEN r.avg_score = None
                 ELSE /\ r.avg_score # None
                      /\ r.avg_score[1].den > 0
                      /\ r.avg_score[1].num * n = t * r.avg_score[1].den
              /\ r.normalized_price # None
              /\ np.den > 0
              /\ IF MaxGivenPrice = 0 THEN np.num = 0
                 ELSE np.num * MaxGivenPrice
                          = (MaxGivenPrice - GivenPrice(g)) * np.den
              /\ IF ~RangePositive
                 THEN r.normalized_score # None /\ ns.num = 0 /\ ns.den > 0
                 ELSE IF n = 0 THEN r.normalized_score = None
                 ELSE /\ r.normalized_score # None
                      /\ ns.den > 0
                      /\ ns.num * n
                           * (ScoreTotal(hi) * nlo - ScoreTotal(lo) * nhi)
                         = ns.den * nhi * (t * nlo - ScoreTotal(lo) * n)
              /\ r.discount_probability # None
              /\ GivenDays(g) + 1 # 0 =>
                   /\ dp.den > 0
                   /\ dp.num * (GivenDays(g) + 1) = dp.den
                   /\ rs.den > 0
                   /\ rs.num * 10 * ns.den * np.den * dp.den
                        = rs.den * (4 * ns.num * np.den * dp.den
                                    + 3 * np.num * ns.den * dp.den
                                    + 3 * dp.num * ns.den * np.den)

\* a frame of three rows was ranked: one row has two scores, one has none
\* and its normalized_score is absent, one had no days_since_last_discount
\* and got 1 / 366, and one has half the highest price
C21_Witness ==
    /\ rec_pc = "ranked"
    /\ Len(recommendations) = 3
    /\ \E i \in 1..3 : /\ Len(GivenScores(Given(recommendations[i]))) = 2
                       /\ recommendations[i].avg_score
                              = Some([num |-> 85, den |-> 1])
    /\ \E i \in 1..3 : /\ recommendations[i].avg_score = None
                       /\ recommendations[i].normalized_score = None
                       /\ recommendations[i].recommendation_score.num > 0
    /\ \E i \in 1..3 :
           /\ Given(recommendations[i]).days_since_last_discount.null
           /\ recommendations[i].discount_probability
                  = Some([num |-> 1, den |-> 366])
           /\ recommendations[i].normalized_price
                  = Some([num |-> 1, den |-> 2])

\* where the row an output row was computed from stood in the frame given
GivenAt(r) == CHOOSE k \in 1..Len(df) : df[k].index = r.base.index

\* C22: the frame a call returns is ordered by recommendation_score
\* descending, and rows of equal recommendation_score stand in the order
\* they had in the frame given.
C22_DescendingAndStable ==
    rec_pc = "ranked" =>
      \A i \in 1..(Len(recommendations) - 1) :
          LET a == recommendations[i]
              b == recommendations[i + 1]
          IN /\ ~Less(a.recommendation_score, b.recommendation_score)
             /\ a.recommendation_score = b.recommendation_score
                    => GivenAt(a) < GivenAt(b)

NoScore == Some([num |-> 0, den |-> 1])

\* C23: after a call on a frame whose rows all have the same price, every
\* row's normalized_price is 0; after a call on a frame whose rows with a
\* score all have the same average, or that has no row with a score, every
\* row's normalized_score is 0; and no normalized_price or normalized_score
\* of any frame is the result of a division by zero.
C23_EqualValuesNormalizeToZero ==
    rec_pc = "ranked" =>
      /\ (\A j, k \in 1..Len(df) : GivenPrice(df[j]) = GivenPrice(df[k]))
           => \A i \in 1..Len(recommendations) :
                  recommendations[i].normalized_price = NoScore
      /\ (\A j, k \in Rated : /\ AvgNotAbove(df[j], df[k])
                              /\ AvgNotAbove(df[k], df[j]))
           => \A i \in 1..Len(recommendations) :
                  recommendations[i].normalized_score = NoScore
      /\ \A i \in 1..Len(recommendations) :
             /\ recommendations[i].normalized_price # Some(Inf)
             /\ recommendations[i].normalized_score # Some(Inf)

\* a frame of several rows of the same price above 0 was ranked, whose rows
\* either all have the same two scores or have no score at all
C23_Witness ==
    /\ rec_pc = "ranked"
    /\ Len(df) > 1
    /\ \A k \in 1..Len(df) : GivenPrice(df[k]) = 10
    /\ \/ Rated = {}
       \/ \A k \in 1..Len(df) : GivenScores(df[k]) = <<80, 90>>
    /\ \A i \in 1..Len(recommendations) :
           /\ recommendations[i].normalized_price = NoScore
           /\ recommendations[i].normalized_score = NoScore

\* C24: a second call on the same frame returns the frame the first call
\* returned, and a call on the frame a call returned returns that frame:
\* the same rows with the same derived fields in the same order.
C24_Idempotent ==
    fed \in {"same", "output"} => recommendations = previous

\* ---- C25
\* a next-page signal in what the pagination block showed
NextPageSignal(nav) ==
    nav.rel_next \/ (nav.current_active /\ nav.next_li)

\* C25: within one call the listing pages are requested in the order 1, 2,
\* 3, ..., each once, page 1 at the bare base URL and page n > 1 at the base
\* URL with "?page=n"; a page after the first is requested only when no break
\* was taken on the page before it (it was fetched and held a card) and its
\* pagination block showed a next-page signal; once the cards of a page are
\* done, a signal leads to the request of the next page and the absence of
\* both signals to the post-processing
C25_PagesInOrder ==
    /\ [](/\ Len(listing_urls) = Len(requested)
          /\ \A i \in 1..Len(requested) :
                /\ requested[i] = i
                /\ listing_urls[i] = IF i = 1 THEN <<"base_url">>
                                     ELSE <<"base_url", "?page=", i>>)
    /\ [][Len(requested') > Len(requested) /\ Len(requested) >= 1
            => /\ brk = "none"
               /\ cardsMet >= Len(requested)
               /\ NextPageSignal(pagination)]_vars
    /\ [][pc = "card" /\ cardsLeft = 0
            => IF NextPageSignal(pagination')
               THEN pc' = "fetch" /\ page' = page + 1 /\ brk' = "none"
               ELSE pc' = "post" /\ brk' = "no_next"]_vars

\* C25 witness: a second page was requested after a page with a signal, and
\* the crawl ended on a page with an active item that no page item follows
C25_Witness ==
    /\ requested = <<1, 2>>
    /\ brk = "no_next"
    /\ pagination.current_active
    /\ ~pagination.next_li
    /\ pc = "returned"

\* ---- C26
\* the resolver gave no result for the card: the search found nothing, a
\* SteamDB request failed, or the app page shows no rating
NonResult ==
    card_io \cap {"no_result", "search_error", "app_error", "no_rating"} # {}

\* the part of C26 that does not depend on the store write: the card of a
\* non-result is skipped only when its price history raises, its steam_score
\* is absent, and from line 418 the only other step is the append with the
\* store write, which leaves the title and the steam_score as they are
NonResultKept ==
    /\ [](NonResult =>
            /\ rating_pc = "excluded" => "history_error" \in card_io
            /\ rating_pc \in {"done", "added"} => rating_score = None
            /\ rating_pc = "added" =>
                    /\ "append" \in card_io
                    /\ card_io \cap {"db_write", "db_write_failed"} # {})
    /\ [][NonResult /\ rating_pc = "done" /\ rating_pc' # "excluded"
            => /\ rating_pc' = "added"
               /\ "append" \in card_io'
               /\ card_title' = card_title
               /\ rating_score' = rating_score]_vars

C27_StoredTextServed ==
    [][got' # got =>
        \A e \in put_log : e.key = got'[1] => got'[2] = Some(e.text)]_vars

\* ---- C28
\* the step is a live HTTP request of a detail page
DetailRequested ==
    \E l \in lookups' \ lookups :
        l.kind = "detail" /\ l.outcome \in {"fetched", "network_error"}

\* C28: every live detail-page request of a crawl is made after a politeness
\* delay that was made since the previous live detail-page request (since the
\* start of the call for the first one), so two successive requests have a
\* delay between them
C28_DelayBeforeDetailFetch ==
    [][DetailRequested => slept /\ ~slept']_vars

\* C28 witness: the second live detail-page request of a call has just been
\* made (the page of the first record was fetched and cached in this call)
C28_Witness ==
    /\ calls = 1
    /\ Len(all_games) = 1
    /\ all_games[1].detail_url \in htmlCache
    /\ pc = "rating"
    /\ \E l \in lookups : l.kind = "detail" /\ l.outcome = "fetched"
    /\ ~slept

\* ---- C29
\* C29: a crawl that tried no new title (games_processed_count = 0, and then
\* the list is empty) returns from the post-scraping part with the rows of
\* the store as they are at that moment, all of them, or with no rows when
\* the store has none or reading it failed; the store is left as it is
C29_NothingNewReturnsStore ==
    /\ [](page >= 1 /\ games_processed_count = 0 => all_games = <<>>)
    /\ [][pc = "post" /\ games_processed_count = 0
            => /\ pc' = "returned"
               /\ db' = db
               /\ \/ result' = CoerceTypes(db)
                  \/ result' = <<>> /\ "db_read_failed" \in io']_vars
    /\ [](pc = "returned" /\ page >= 1 /\ games_processed_count = 0
            => \/ result = CoerceTypes(db)
               \/ result = <<>> /\ "db_read_failed" \in io)

\* C29 witness: a forced crawl met only titles of the store and returned the
\* rows of the store
C29_Witness ==
    /\ pc = "returned"
    /\ arg_force
    /\ cardsMet > 0
    /\ games_processed_count = 0
    /\ db # <<>>
    /\ result = CoerceTypes(db)

\* ---- C30
\* C30: a crawl that tried at least one new title and has an empty list
\* returns no rows, whatever the store holds, and leaves the snapshot file
\* as it is (no write of it is made)
C30_NothingProcessedReturnsEmpty ==
    /\ [][pc = "post" /\ games_processed_count > 0 /\ all_games = <<>>
            => /\ pc' = "returned"
               /\ result' = <<>>
               /\ csv' = csv
               /\ io' = io
               /\ db' = db]_vars
    /\ [](pc = "returned" /\ games_processed_count > 0 /\ all_games = <<>>
            => result = <<>> /\ "csv_write" \notin io)

\* C30 witness: a forced crawl over a store with rows tried a new title,
\* processed none and returned no rows
C30_Witness ==
    /\ pc = "returned"
    /\ calls = 2
    /\ games_processed_count > 0
    /\ all_games = <<>>
    /\ db # <<>>
    /\ csv.state = "ok"
    /\ result = <<>>

\* ---- C31
\* a finite fraction in [0, 1]
InUnitInterval(x) == x.den > 0 /\ 0 <= x.num /\ x.num <= x.den

\* C31: every row analyze_and_recommend returns has its normalized_price and
\* its normalized_score (when present) in [0, 1], its discount_probability in
\* (0, 1] and its recommendation_score in [0, 1], and the
\* days_since_last_discount + 1 it divides by is positive
C31_DerivedFieldsInRange ==
    rec_pc = "ranked" =>
      \A i \in 1..Len(recommendations) :
        LET r == recommendations[i]
        IN /\ r.base.days_since_last_discount.value + 1 > 0
           /\ r.normalized_price # None
                 => InUnitInterval(r.normalized_price[1])
           /\ r.normalized_score # None
                 => InUnitInterval(r.normalized_score[1])
           /\ r.discount_probability # None
           /\ InUnitInterval(r.discount_probability[1])
           /\ r.discount_probability[1].num > 0
           /\ InUnitInterval(r.recommendation_score)

LoopPositions ==
    {"fetch", "card", "exists", "price", "link", "detail", "rating",
     "append", "save"}

\* C33: the crawl loop is left only by one of its three breaks (a listing
\* page that cannot be fetched, a page without cards, a page without a
\* next-page signal), each of which leads to the post-scraping part and from
\* there to the return of get_game_data; as long as a page has a card and a
\* next-page signal, the next page is requested
C33_LoopLeftByBreakOnly ==
    /\ [][(pc \in LoopPositions /\ pc' \notin LoopPositions)
            => /\ brk' \in {"fetch_failed", "no_cards", "no_next"}
               /\ pc' = "post"]_vars
    /\ [][pc = "post" => pc' = "returned"]_vars
    /\ [][pc = "card" /\ cardsLeft = 0 /\ NextPageSignal(pagination')
            => pc' = "fetch" /\ page' = page + 1]_vars

\* ---- C34
\* C34: when a run of main() has ended, by reaching its last line or by an
\* exception, raw_data and processed_data are both None or both set; and
\* display_results was called in a run only with both of them set
C34_SessionFieldsTogether ==
    /\ main_pc \in {"end", "raised"}
          => \/ raw_data = "None" /\ processed_data = "None"
             \/ raw_data = "set" /\ processed_data = "set"
    /\ displayed => raw_data = "set" /\ processed_data = "set"

\* C34 witness: a run started by the refresh button has ended with both
\* fields set and the results displayed
C34_Witness ==
    /\ main_pc = "end"
    /\ pressed = "refresh"
    /\ raw_data = "set"
    /\ processed_data = "set"
    /\ displayed

====
